---- MODULE Spec2Model ----
(***************************************************************************)
(* Blog post generator: the marker-extraction -> media-extraction ->       *)
(* HTML-splicing pipeline of src/src/blog_processor.                        *)
(*                                                                         *)
(* A string is a sequence of pieces: a piece is one character, or a       *)
(* literal run of characters that no operation looks inside ("left",       *)
(* " day, ").  A text is a sequence of tokens: a character, a bracket      *)
(* marker as written in the document (a record holding its keyword and     *)
(* the attributes written in it, in the order written), or a <figure>      *)
(* element spliced in by the renderer.  Python values that may be int,     *)
(* str or None are tagged records.                                         *)
(***************************************************************************)
EXTENDS Integers, Sequences, FiniteSets, TLC

(***************************************************************************)
(* Bounds of the model.                                                    *)
(***************************************************************************)
\* the longest document: fragments and paragraph breaks
MaxItems == 3
\* the longest marker list handed to validate_markers on its own
MaxValMarkers == 2

(***************************************************************************)
(* Python values and exceptions.                                           *)
(***************************************************************************)
PyInt(n) == [ty |-> "int", i |-> n, s |-> <<>>]
PyStr(s) == [ty |-> "str", i |-> 0, s |-> s]
PyNone == [ty |-> "NoneType", i |-> 0, s |-> <<>>]

NoExc == "none"
Ok(v) == [exc |-> NoExc, val |-> v]
Raise(e) == [exc |-> e, val |-> 0]

(***************************************************************************)
(* Character strings.                                                      *)
(***************************************************************************)
Digits == <<"0", "1", "2", "3", "4", "5", "6", "7", "8", "9">>
IsDigit(c) == \E d \in 1..10 : Digits[d] = c
DigitVal(c) == (CHOOSE d \in 1..10 : Digits[d] = c) - 1
IsSpace(c) == c \in {" ", "\n", "\t"}

RECURSIVE LStrip(_)
LStrip(s) == IF s # <<>> /\ IsSpace(Head(s)) THEN LStrip(Tail(s)) ELSE s
RECURSIVE RStrip(_)
RStrip(s) ==
    IF s # <<>> /\ IsSpace(s[Len(s)]) THEN RStrip(SubSeq(s, 1, Len(s) - 1)) ELSE s
Strip(s) == RStrip(LStrip(s))

\* str.split(sep): the pieces between occurrences of sep (always >= 1 piece)
RECURSIVE SplitAcc(_, _, _)
SplitAcc(s, sep, cur) ==
    IF s = <<>> THEN <<cur>>
    ELSE IF Head(s) = sep THEN <<cur>> \o SplitAcc(Tail(s), sep, <<>>)
    ELSE SplitAcc(Tail(s), sep, Append(cur, Head(s)))
Split(s, sep) == SplitAcc(s, sep, <<>>)

RECURSIVE DigitsVal(_, _)
DigitsVal(s, acc) ==
    IF s = <<>> THEN acc ELSE DigitsVal(Tail(s), acc * 10 + DigitVal(Head(s)))

\* int(s): optional surrounding whitespace, optional sign, one or more digits
SignedInt(negative, body) ==
    IF body # <<>> /\ \A k \in 1..Len(body) : IsDigit(body[k])
    THEN Ok(IF negative THEN 0 - DigitsVal(body, 0) ELSE DigitsVal(body, 0))
    ELSE Raise("ValueError")
IntOfStripped(t) ==
    IF t # <<>> /\ Head(t) \in {"-", "+"} THEN SignedInt(Head(t) = "-", Tail(t))
    ELSE SignedInt(FALSE, t)
PyIntOfStr(s) == IntOfStripped(Strip(s))
\* int() of every part of a split string
IntParts(parts) == [k \in 1..Len(parts) |-> PyIntOfStr(parts[k])]
AllInts(ints) == \A k \in 1..Len(ints) : ints[k].exc = NoExc

\* str(n) for an integer n
RECURSIVE NatStr(_)
NatStr(n) == IF n < 10 THEN <<Digits[n + 1]>> ELSE NatStr(n \div 10) \o <<Digits[(n % 10) + 1]>>
IntStr(n) == IF n < 0 THEN <<"-">> \o NatStr(0 - n) ELSE NatStr(n)
\* f"{n:02d}" and f"{n:03d}" for n >= 0
Pad2(n) == IF n < 10 THEN <<"0">> \o NatStr(n) ELSE NatStr(n)
Pad3(n) == IF n < 10 THEN <<"0", "0">> \o NatStr(n)
           ELSE IF n < 100 THEN <<"0">> \o NatStr(n) ELSE NatStr(n)

\* str(timedelta(seconds=n)): "H:MM:SS", preceded by "D day(s), " when the
\* normalised day count is not zero (days = floor(n / 86400))
TimedeltaStr(n) ==
    LET days == n \div 86400
        secs == n % 86400
        hms == NatStr(secs \div 3600) \o <<":">> \o Pad2((secs % 3600) \div 60)
               \o <<":">> \o Pad2(secs % 60)
    IN  IF days = 0 THEN hms
        ELSE IntStr(days) \o (IF days \in {1, -1} THEN <<" day, ">> ELSE <<" days, ">>) \o hms

\* s.replace(':', '-')
ColonsToDashes(s) == [k \in 1..Len(s) |-> IF s[k] = ":" THEN "-" ELSE s[k]]
FormattedTime(n) == ColonsToDashes(TimedeltaStr(n))

\* needle in hay (contiguous subsequence)
IsSubstring(needle, hay) ==
    \E k \in 0..(Len(hay) - Len(needle)) : SubSeq(hay, k + 1, k + Len(needle)) = needle

(***************************************************************************)
(* BlogDocumentReader.parse_time                                           *)
(***************************************************************************)
\* lines 44-50, given int() of each part and of the whole string
SecondsOfParts(ints, whole) ==
    IF Len(ints) = 2 THEN
        IF AllInts(ints) THEN Ok(ints[1].val * 60 + ints[2].val) ELSE Raise("ValueError")
    ELSE IF Len(ints) = 3 THEN
        IF AllInts(ints) THEN Ok(ints[1].val * 3600 + ints[2].val * 60 + ints[3].val)
        ELSE Raise("ValueError")
    ELSE whole
parse_time(time_str) ==
    SecondsOfParts(IntParts(Split(Strip(time_str), ":")), PyIntOfStr(time_str))

(***************************************************************************)
(* Text tokens.                                                            *)
(***************************************************************************)
Ch(c) == [t |-> "ch", c |-> c]
\* a bracket marker as written: [KIND name="val" name="val" ...]
Attr(name, val) == [name |-> name, val |-> val]
Br(kind, attrs) == [t |-> "br", kind |-> kind, attrs |-> attrs]
AttrNames(tok) == [k \in 1..Len(tok.attrs) |-> tok.attrs[k].name]
IsBracket(tok) == tok.t = "br"
IsSpaceTok(tok) == tok.t = "ch" /\ IsSpace(tok.c)
CharsOf(toks) == [k \in 1..Len(toks) |-> toks[k].c]

RECURSIVE LStripToks(_)
LStripToks(s) == IF s # <<>> /\ IsSpaceTok(Head(s)) THEN LStripToks(Tail(s)) ELSE s
RECURSIVE RStripToks(_)
RStripToks(s) ==
    IF s # <<>> /\ IsSpaceTok(s[Len(s)]) THEN RStripToks(SubSeq(s, 1, Len(s) - 1)) ELSE s
StripToks(s) == RStripToks(LStripToks(s))

\* '\n'.join(lines)
RECURSIVE JoinLines(_)
JoinLines(lines) ==
    IF lines = <<>> THEN <<>>
    ELSE IF Len(lines) = 1 THEN lines[1]
    ELSE lines[1] \o <<Ch("\n")>> \o JoinLines(Tail(lines))

(***************************************************************************)
(* MediaMarker (docx_reader.py) and the marker patterns of                  *)
(* BlogDocumentReader.__init__                                             *)
(***************************************************************************)
MediaMarker(type, timestamp, duration, align, caption, original_text) ==
    [type |-> type, timestamp |-> timestamp, duration |-> duration, align |-> align,
     caption |-> caption, original_text |-> original_text]

\* a pattern matches a bracket whose keyword is the pattern's and whose
\* attributes are exactly the pattern's, in its order, each with a value
HasAttrs(tok, kind, names) ==
    /\ IsBracket(tok)
    /\ tok.kind = kind
    /\ AttrNames(tok) = names
    /\ \A k \in 1..Len(tok.attrs) : tok.attrs[k].val # <<>>
clip_pattern(tok) == HasAttrs(tok, "CLIP", <<"timestamp", "duration", "align">>)
screenshot_pattern(tok) == HasAttrs(tok, "SCREENSHOT", <<"timestamp", "align">>)
clip_pattern_no_align(tok) == HasAttrs(tok, "CLIP", <<"timestamp", "duration">>)
screenshot_pattern_no_align(tok) == HasAttrs(tok, "SCREENSHOT", <<"timestamp">>)

\* the trailing ([^\[]*) of every pattern: the run of tokens up to the next '['
RECURSIVE RunEnd(_, _)
RunEnd(text, k) == IF k > Len(text) \/ IsBracket(text[k]) THEN k ELSE RunEnd(text, k + 1)

\* patterns of which the last takes a bracket of any keyword
PatternMatchesAnyKeyword(pattern, tok) ==
    IF pattern = "clip_pattern" THEN clip_pattern(tok)
    ELSE IF pattern = "clip_pattern_no_align" THEN clip_pattern_no_align(tok)
    ELSE IF pattern = "screenshot_pattern" THEN screenshot_pattern(tok)
    ELSE \E kind \in {"CLIP", "SCREENSHOT", "IMAGE"} : HasAttrs(tok, kind, <<"timestamp">>)
\* re.finditer(pattern, text): the matches from left to right, each from the
\* bracket at pos up to (not including) stop
PatternMatches(pattern, tok) ==
    IF pattern = "clip_pattern" THEN clip_pattern(tok)
    ELSE IF pattern = "clip_pattern_no_align" THEN clip_pattern_no_align(tok)
    ELSE IF pattern = "screenshot_pattern" THEN screenshot_pattern(tok)
    ELSE screenshot_pattern_no_align(tok)
RECURSIVE FindIterFrom(_, _, _)
FindIterFrom(pattern, text, k) ==
    IF k > Len(text) THEN <<>>
    ELSE IF PatternMatches(pattern, text[k])
         THEN <<[pos |-> k, stop |-> RunEnd(text, k + 1)]>>
              \o FindIterFrom(pattern, text, RunEnd(text, k + 1))
         ELSE FindIterFrom(pattern, text, k + 1)
FindIter(pattern, text) == FindIterFrom(pattern, text, 1)

Group0(text, m) == SubSeq(text, m.pos, m.stop - 1)
CaptionGroup(text, m) == CharsOf(SubSeq(text, m.pos + 1, m.stop - 1))

\* the body of the loop over one pattern's matches: the markers appended, each
\* with the position of its match; a match whose time fields do not parse
\* is dropped by the except clause
ClipMarkerFrom(text, m, ts, dur, align) ==
    IF ts.exc # NoExc \/ dur.exc # NoExc THEN <<>>
    ELSE <<[pos |-> m.pos,
            marker |-> MediaMarker("CLIP", PyInt(ts.val), PyInt(dur.val), align,
                                   Strip(CaptionGroup(text, m)), Group0(text, m))]>>
ClipMarkerOf(text, m, withAlign) ==
    ClipMarkerFrom(text, m, parse_time(text[m.pos].attrs[1].val),
                   parse_time(text[m.pos].attrs[2].val),
                   IF withAlign THEN text[m.pos].attrs[3].val ELSE <<"center">>)

ScreenshotMarkerFrom(text, m, ts, align) ==
    IF ts.exc # NoExc THEN <<>>
    ELSE <<[pos |-> m.pos,
            marker |-> MediaMarker("SCREENSHOT", PyInt(ts.val), PyNone, align,
                                   Strip(CaptionGroup(text, m)), Group0(text, m))]>>
ScreenshotMarkerOf(text, m, withAlign) ==
    ScreenshotMarkerFrom(text, m, parse_time(text[m.pos].attrs[1].val),
                         IF withAlign THEN text[m.pos].attrs[2].val ELSE <<"center">>)

RECURSIVE ClipMarkersOf(_, _, _)
ClipMarkersOf(text, matches, withAlign) ==
    IF matches = <<>> THEN <<>>
    ELSE ClipMarkerOf(text, Head(matches), withAlign)
         \o ClipMarkersOf(text, Tail(matches), withAlign)
RECURSIVE ScreenshotMarkersOf(_, _, _)
ScreenshotMarkersOf(text, matches, withAlign) ==
    IF matches = <<>> THEN <<>>
    ELSE ScreenshotMarkerOf(text, Head(matches), withAlign)
         \o ScreenshotMarkersOf(text, Tail(matches), withAlign)

\* first the matches of the pattern with align, then those of the pattern without
_process_clip_markers(text) ==
    ClipMarkersOf(text, FindIter("clip_pattern", text), TRUE)
    \o ClipMarkersOf(text, FindIter("clip_pattern_no_align", text), FALSE)
_process_screenshot_markers(text) ==
    ScreenshotMarkersOf(text, FindIter("screenshot_pattern", text), TRUE)
    \o ScreenshotMarkersOf(text, FindIter("screenshot_pattern_no_align", text), FALSE)

\* one iteration of the paragraph loop of extract_markers: the entries found in
\* paragraph number i, clips before screenshots
TextMarkers(text) ==
    IF text = <<>> THEN <<>>
    ELSE _process_clip_markers(text) \o _process_screenshot_markers(text)
InParagraph(found, i) ==
    [k \in 1..Len(found) |-> [para |-> i, pos |-> found[k].pos, marker |-> found[k].marker]]
ParagraphMarkers(para, i) == InParagraph(TextMarkers(StripToks(para)), i)

RECURSIVE ExtractFrom(_, _)
ExtractFrom(paras, i) ==
    IF i > Len(paras) THEN <<>>
    ELSE ParagraphMarkers(paras[i], i) \o ExtractFrom(paras, i + 1)

\* extract_markers: (markers, '\n'.join(full_text)); spans is the place of each
\* marker's match (paragraph, offset in the stripped paragraph), kept beside it
Extracted(found, paras) ==
    [markers |-> [k \in 1..Len(found) |-> found[k].marker],
     spans |-> [k \in 1..Len(found) |-> <<found[k].para, found[k].pos>>],
     text |-> JoinLines([k \in 1..Len(paras) |-> StripToks(paras[k])])]
extract_markers(paras) == Extracted(ExtractFrom(paras, 1), paras)

(***************************************************************************)
(* BlogDocumentReader.validate_markers                                     *)
(***************************************************************************)
DurationWarning(i) ==
    <<"Warning: Clip #">> \o IntStr(i) \o <<" has duration less than 1 second">>
TimestampWarning(i) ==
    <<"Warning: Invalid timestamp format in marker #">> \o IntStr(i)

\* marker.duration < 1 raises TypeError unless the duration is a number
DurationCheckRaises(marker) == marker.type = "CLIP" /\ marker.duration.ty # "int"

\* a validator that warns of negative durations only
MarkerWarningsNegativeOnly(marker, i) ==
    (IF marker.type = "CLIP" /\ marker.duration.i < 0 THEN <<DurationWarning(i)>> ELSE <<>>)
    \o (IF marker.timestamp.ty = "str" /\ parse_time(marker.timestamp.s).exc = "ValueError"
        THEN <<TimestampWarning(i)>> ELSE <<>>)

\* the warnings one iteration of the loop appends for marker number i
MarkerWarnings(marker, i) ==
    (IF marker.type = "CLIP" /\ marker.duration.i < 1 THEN <<DurationWarning(i)>> ELSE <<>>)
    \o (IF marker.timestamp.ty = "str" /\ parse_time(marker.timestamp.s).exc = "ValueError"
        THEN <<TimestampWarning(i)>> ELSE <<>>)

RECURSIVE ValidateFrom(_, _, _)
ValidateFrom(ms, i, warnings) ==
    IF i > Len(ms) THEN Ok(warnings)
    ELSE IF DurationCheckRaises(ms[i]) THEN Raise("TypeError")
    ELSE ValidateFrom(ms, i + 1, warnings \o MarkerWarnings(ms[i], i))

validate_markers(ms) == ValidateFrom(ms, 1, <<>>)

(***************************************************************************)
(* utils.validate_timestamps; timestamps is a sequence of integers         *)
(***************************************************************************)
validate_timestamps(timestamps, allow_duplicates) ==
    IF timestamps = <<>> THEN Raise("ValueError")
    ELSE IF \E k \in 1..Len(timestamps) : timestamps[k] < 0 THEN Raise("ValueError")
    ELSE IF ~allow_duplicates
            /\ \E j, k \in 1..Len(timestamps) : j # k /\ timestamps[j] = timestamps[k]
         THEN Raise("ValueError")
    ELSE Ok(0)

(***************************************************************************)
(* Directories and file names.  The video is video.mp4, so video_name and  *)
(* video_filename are "video"; blog_dir is <base>/video_<time of the run>. *)
(***************************************************************************)
BlogDir == <<"blog">>
MediaDir == <<"blog", "/", "video">>
File(dir, name) == [dir |-> dir, name |-> name]
PathStr(f) == f.dir \o <<"/">> \o f.name

\* screenshot_extractor.py: the sub-folder the screenshots are written to
video_output_dir(output_dir) == output_dir \o <<"/", "video">>

\* f"{video_filename}_screenshot_{i + 1:03d}_at_{time_str}.jpg", seq = i + 1
ScreenshotName(seq, timestamp) ==
    <<"video", "_", "screenshot_">> \o Pad3(seq) \o <<"_at_">> \o FormattedTime(timestamp)
    \o <<".jpg">>
\* f"{video_filename}_clip_from_{start_str}_duration_{duration_str}.mp4"
ClipName(start_time, duration) ==
    <<"video", "_", "clip_from_">> \o FormattedTime(start_time) \o <<"_duration_">>
    \o FormattedTime(duration) \o <<".mp4">>
HtmlFile == File(BlogDir, <<"blog_post.html">>)

IsScreenshotFile(f) == f.name # <<>> /\ f.name[Len(f.name)] = ".jpg"
IsClipFile(f) == f.name # <<>> /\ f.name[Len(f.name)] = ".mp4"
IsMediaFile(f) == IsScreenshotFile(f) \/ IsClipFile(f)
MediaTypeOf(f) == IF IsScreenshotFile(f) THEN "SCREENSHOT" ELSE "CLIP"

\* dir is path or lies under path
Under(dir, path) == Len(dir) >= Len(path) /\ SubSeq(dir, 1, Len(path)) = path

(***************************************************************************)
(* MediaExtractor: the markers of one kind, and the paths it tracks        *)
(***************************************************************************)
RECURSIVE OfType(_, _)
OfType(ms, type) ==
    IF ms = <<>> THEN <<>>
    ELSE (IF Head(ms).type = type THEN <<Head(ms)>> ELSE <<>>) \o OfType(Tail(ms), type)

\* _extract_screenshots: the timestamps handed to extract_screenshots_at_times
RECURSIVE NumericTimestamps(_)
NumericTimestamps(ms) ==
    IF ms = <<>> THEN <<>>
    ELSE (IF Head(ms).timestamp.ty = "int" THEN <<Head(ms).timestamp.i>> ELSE <<>>)
         \o NumericTimestamps(Tail(ms))

\* _extract_screenshots, "Track extracted files": one path per screenshot marker,
\* in output_dir itself, numbered by the marker's place among the screenshot markers
RECURSIVE TrackedScreenshots(_, _, _)
TrackedScreenshots(ms, i, output_dir) ==
    IF i > Len(ms) THEN <<>>
    ELSE (IF ms[i].timestamp.ty = "int"
          THEN <<File(output_dir, ScreenshotName(i, ms[i].timestamp.i))>> ELSE <<>>)
         \o TrackedScreenshots(ms, i + 1, output_dir)

\* cleanup_failed_extractions: every tracked path that exists is removed
cleanup_failed_extractions(fs, tracked) ==
    fs \ ({tracked.clips[k] : k \in 1..Len(tracked.clips)}
          \cup {tracked.screenshots[k] : k \in 1..Len(tracked.screenshots)})

(***************************************************************************)
(* HTMLGenerator                                                           *)
(***************************************************************************)
\* _scan_for_media_files keeps the .jpg and .mp4 files under the directory of
\* the HTML file, in the order os.walk lists them: a directory's files before
\* those of its sub-directories, the files of one directory in any order
MediaFilesUnder(fs, top) == {f \in fs : IsMediaFile(f) /\ Under(f.dir, top)}
ScanOrders(fs, top) ==
    LET S == MediaFilesUnder(fs, top)
        n == Cardinality(S)
    IN  {o \in [1..n -> S] :
            /\ \A i, j \in 1..n : i # j => o[i] # o[j]
            /\ \A i, j \in 1..n : i < j => Len(o[i].dir) <= Len(o[j].dir)}

_get_width_class(align) ==
    IF align = <<"left">> \/ align = <<"right">> THEN "width-50" ELSE "width-70"
AlignClass(align) ==
    IF align = <<"left">> THEN "align-left"
    ELSE IF align = <<"right">> THEN "align-right" ELSE "align-center"
Figure(tag, align, src, caption) ==
    [t |-> "fig", tag |-> tag, align_class |-> AlignClass(align),
     width_class |-> _get_width_class(align), src |-> src, caption |-> caption]
_create_video_element(marker, video_path) ==
    Figure("video", marker.align, video_path, marker.caption)
_create_image_element(marker, image_path) ==
    Figure("img", marker.align, image_path, marker.caption)

NoFile == File(<<>>, <<>>)
Found(f) == [exc |-> NoExc, found |-> TRUE, file |-> f]
NotFound == [exc |-> NoExc, found |-> FALSE, file |-> NoFile]
FindRaises(e) == [exc |-> e, found |-> FALSE, file |-> NoFile]


\* the seconds of a timestamp that is a str (lines 88-95); int() may raise
TimestampSecs(timestamp) ==
    IF timestamp.ty = "str"
    THEN SecondsOfParts(IntParts(Split(timestamp.s, ":")), PyIntOfStr(timestamp.s))
    ELSE IF timestamp.ty = "int" THEN Ok(timestamp.i)
    ELSE Raise("TypeError")

\* lines 102-108: the first file of the type whose path contains the
\* formatted time; lines 111-117: else the first screenshot whose path contains
\* "screenshot_" and the seconds as three digits
RECURSIVE ExactMatch(_, _, _)
ExactMatch(formatted_time, media_type, all_media_files) ==
    IF all_media_files = <<>> THEN NotFound
    ELSE IF MediaTypeOf(Head(all_media_files)) = media_type
            /\ IsSubstring(formatted_time, PathStr(Head(all_media_files)))
         THEN Found(Head(all_media_files))
    ELSE ExactMatch(formatted_time, media_type, Tail(all_media_files))
RECURSIVE FlexibleMatch(_, _, _)
FlexibleMatch(timestamp_secs, media_type, all_media_files) ==
    IF all_media_files = <<>> THEN NotFound
    ELSE IF /\ MediaTypeOf(Head(all_media_files)) = media_type
            /\ media_type = "SCREENSHOT"
            /\ IsSubstring(<<"screenshot_">> \o Pad3(timestamp_secs),
                           PathStr(Head(all_media_files)))
         THEN Found(Head(all_media_files))
    ELSE FlexibleMatch(timestamp_secs, media_type, Tail(all_media_files))
\* a lookup that raises when no file has the exact name
ExactOrRaise(exact, timestamp_secs, media_type, all_media_files) ==
    IF exact.found THEN exact ELSE FindRaises("FileNotFoundError")
ExactOrFlexible(exact, timestamp_secs, media_type, all_media_files) ==
    IF exact.found THEN exact ELSE FlexibleMatch(timestamp_secs, media_type, all_media_files)
FindBySecs(secs, media_type, all_media_files) ==
    IF secs.exc # NoExc THEN FindRaises(secs.exc)
    ELSE ExactOrFlexible(ExactMatch(FormattedTime(secs.val), media_type, all_media_files),
                         secs.val, media_type, all_media_files)
_find_media_file_by_timestamp(timestamp, media_type, all_media_files) ==
    FindBySecs(TimestampSecs(timestamp), media_type, all_media_files)

\* str.replace(old, new): every occurrence, left to right, without overlap
RECURSIVE ReplaceAll(_, _, _)
ReplaceAll(text, old, new) ==
    IF Len(text) < Len(old) \/ old = <<>> THEN text
    ELSE IF SubSeq(text, 1, Len(old)) = old
         THEN new \o ReplaceAll(SubSeq(text, Len(old) + 1, Len(text)), old, new)
         ELSE <<Head(text)>> \o ReplaceAll(Tail(text), old, new)

\* the pattern of the regex re-scan (line 323): a SCREENSHOT bracket with a
\* timestamp and an optional align, without the caption
rescan_pattern(tok) ==
    \/ HasAttrs(tok, "SCREENSHOT", <<"timestamp">>)
    \/ HasAttrs(tok, "SCREENSHOT", <<"timestamp", "align">>)

\* lines 329-338: the seconds of a re-scanned timestamp; 0 unless it has two
\* or three parts that are all integers
MatchSecondsOf(ints) ==
    IF Len(ints) = 2 /\ AllInts(ints) THEN ints[1].val * 60 + ints[2].val
    ELSE IF Len(ints) = 3 /\ AllInts(ints)
    THEN ints[1].val * 3600 + ints[2].val * 60 + ints[3].val
    ELSE 0
match_seconds(match_timestamp) == MatchSecondsOf(IntParts(Split(match_timestamp, ":")))

Abs(n) == IF n < 0 THEN 0 - n ELSE n
TimestampsClose(a, b) == Abs(a - b) < 5

\* lines 321-343: the first re-scanned bracket whose timestamp is close to the
\* marker's is replaced (wherever it occurs) by the marker's element
RECURSIVE RescanReplace(_, _, _, _)
RescanReplace(content, k, marker, element) ==
    IF k > Len(content) THEN content
    ELSE IF rescan_pattern(content[k])
            /\ TimestampsClose(match_seconds(content[k].attrs[1].val), marker.timestamp.i)
         THEN ReplaceAll(content, <<content[k]>>, <<element>>)
         ELSE RescanReplace(content, k + 1, marker, element)

\* lines 300-311: the element for the marker's file
ElementFor(marker, path) ==
    IF marker.type = "CLIP" THEN _create_video_element(marker, path)
    ELSE _create_image_element(marker, path)

\* lines 297-345: the body of the loop over the markers, for one marker: the
\* file is looked up (ReplaceMarker), then the marker replaced (ReplaceWith)
ReplaceWith(content, marker, file) ==
    IF file.exc # NoExc THEN Raise(file.exc)
    ELSE IF ~file.found \/ marker.original_text = <<>> THEN Ok(content)
    ELSE IF IsSubstring(marker.original_text, content)
         THEN Ok(ReplaceAll(content, marker.original_text, <<ElementFor(marker, file.file)>>))
    ELSE IF marker.type = "SCREENSHOT"
         THEN IF marker.timestamp.ty = "int"
              THEN Ok(RescanReplace(content, 1, marker, ElementFor(marker, file.file)))
              ELSE IF \E k \in 1..Len(content) : rescan_pattern(content[k])
              THEN Raise("TypeError")
              ELSE Ok(content)
    ELSE Ok(content)

ReplaceMarker(content, marker, all_media_files) ==
    ReplaceWith(content, marker,
                _find_media_file_by_timestamp(
                    marker.timestamp, IF marker.type = "CLIP" THEN "CLIP" ELSE "SCREENSHOT",
                    all_media_files))

RECURSIVE ReplaceMarkers(_, _, _)
ThenReplace(r, ms, all_media_files) ==
    IF r.exc # NoExc THEN r ELSE ReplaceMarkers(r.val, ms, all_media_files)
ReplaceMarkers(content, ms, all_media_files) ==
    IF ms = <<>> THEN Ok(content)
    ELSE ThenReplace(ReplaceMarker(content, Head(ms), all_media_files), Tail(ms),
                     all_media_files)

\* the order of characters that list.sort() compares strings by; a literal
\* piece is ranked by its first character
PieceRank(c) ==
    IF c = " " \/ c = " day, " \/ c = " days, " THEN 32
    ELSE IF c = "-" THEN 45
    ELSE IF c = "." \/ c = ".jpg" \/ c = ".mp4" THEN 46
    ELSE IF c = "/" THEN 47
    ELSE IF IsDigit(c) THEN 48 + DigitVal(c)
    ELSE IF c = "_" \/ c = "_at_" \/ c = "_duration_" THEN 95
    ELSE 97
RECURSIVE StrLess(_, _)
StrLess(a, b) ==
    IF b = <<>> THEN FALSE
    ELSE IF a = <<>> THEN TRUE
    ELSE IF Head(a) = Head(b) THEN StrLess(Tail(a), Tail(b))
    ELSE PieceRank(Head(a)) < PieceRank(Head(b))

RECURSIVE InsertSorted(_, _)
InsertSorted(f, sorted) ==
    IF sorted = <<>> THEN <<f>>
    ELSE IF StrLess(PathStr(f), PathStr(Head(sorted))) THEN <<f>> \o sorted
    ELSE <<Head(sorted)>> \o InsertSorted(f, Tail(sorted))
RECURSIVE SortFiles(_)
SortFiles(files) ==
    IF files = <<>> THEN <<>> ELSE InsertSorted(Head(files), SortFiles(Tail(files)))

RECURSIVE SelectFiles(_, _)
SelectFiles(files, type) ==
    IF files = <<>> THEN <<>>
    ELSE (IF MediaTypeOf(Head(files)) = type THEN <<Head(files)>> ELSE <<>>)
         \o SelectFiles(Tail(files), type)

\* re.findall(r'\[SCREENSHOT[^\]]+\]', html_content): every SCREENSHOT bracket
\* that holds anything after its keyword
RECURSIVE RemainingMarkers(_)
RemainingMarkers(content) ==
    IF content = <<>> THEN <<>>
    ELSE (IF IsBracket(Head(content)) /\ Head(content).kind = "SCREENSHOT"
             /\ Head(content).attrs # <<>>
          THEN <<Head(content)>> ELSE <<>>) \o RemainingMarkers(Tail(content))

\* re.search of an attribute in the bracket's text: the first one written
RECURSIVE AttrSearch(_, _)
AttrSearch(attrs, name) ==
    IF attrs = <<>> THEN <<>>
    ELSE IF Head(attrs).name = name /\ Head(attrs).val # <<>> THEN Head(attrs).val
    ELSE AttrSearch(Tail(attrs), name)

\* lines 358-387: remaining bracket number i takes the i-th screenshot file
RECURSIVE AssignRemaining(_, _, _, _)
AssignRemaining(content, remaining, i, screenshot_files) ==
    IF i > Len(remaining) THEN content
    ELSE LET marker_text == remaining[i]
             timestamp == AttrSearch(marker_text.attrs, "timestamp")
             align_match == AttrSearch(marker_text.attrs, "align")
             align == IF align_match # <<>> THEN align_match ELSE <<"center">>
             temp_marker == MediaMarker("SCREENSHOT", PyInt(0), PyNone, align,
                                        <<"Screenshot at ">> \o timestamp, <<>>)
         IN  IF timestamp # <<>> /\ i <= Len(screenshot_files)
             THEN AssignRemaining(
                      ReplaceAll(content, <<marker_text>>,
                                 <<_create_image_element(temp_marker, screenshot_files[i])>>),
                      remaining, i + 1, screenshot_files)
             ELSE AssignRemaining(content, remaining, i + 1, screenshot_files)

\* lines 347-387
AssignUnprocessed(content, all_media_files) ==
    AssignRemaining(content, RemainingMarkers(content), 1,
                    SortFiles(SelectFiles(all_media_files, "SCREENSHOT")))

(***************************************************************************)
(* HTMLGenerator: the markdown passes (_convert_markdown_headers,          *)
(* _process_lists, and the paragraph pass at the end of generate_html)     *)
(***************************************************************************)
\* a tag the passes write, as pieces: <<"<ul>">>, <<"<li value=\"", "1", "\">">>
Html(s) == [t |-> "html", s |-> s]
\* one line of the text of a figure element (lines 53-61 and 69-74): part is
\* "figure", "video", "source", "fallback", "/video", "img", "figcaption" or
\* "/figure"
FigureLine(fig, part) == [t |-> "figline", part |-> part, fig |-> fig]
\* the element's text: "\n", its lines, each indented, "\n" and the
\* indentation (one space piece stands for a run of spaces)
FigureText(fig) ==
    LET parts == IF fig.tag = "video"
                 THEN <<"figure", "video", "source", "fallback", "/video", "figcaption",
                        "/figure">>
                 ELSE <<"figure", "img", "figcaption", "/figure">>
    IN  <<Ch("\n")>>
        \o [k \in 1..(3 * Len(parts)) |->
               IF k % 3 = 1 THEN Ch(" ")
               ELSE IF k % 3 = 2 THEN FigureLine(fig, parts[(k + 1) \div 3])
               ELSE Ch("\n")]
        \o <<Ch(" ")>>
\* the text with every figure element written out
RECURSIVE ExpandFigures(_)
ExpandFigures(text) ==
    IF \A k \in 1..Len(text) : text[k].t # "fig" THEN text
    ELSE LET k == CHOOSE j \in 1..Len(text) :
                      text[j].t = "fig" /\ \A h \in 1..(j - 1) : text[h].t # "fig"
         IN  SubSeq(text, 1, k - 1) \o FigureText(text[k])
             \o ExpandFigures(SubSeq(text, k + 1, Len(text)))

\* the pieces of text between the separators, each w tokens wide, that start
\* at the positions in P
Pieces(text, P, w) ==
    LET n == Cardinality(P)
        Nth(k) == CHOOSE p \in P : Cardinality({q \in P : q < p}) = k - 1
    IN  [k \in 1..(n + 1) |->
            SubSeq(text, IF k = 1 THEN 1 ELSE Nth(k - 1) + w,
                   IF k = n + 1 THEN Len(text) ELSE Nth(k) - 1)]
\* text.split('\n')
SplitLines(text) == Pieces(text, {k \in 1..Len(text) : text[k] = Ch("\n")}, 1)

\* the length of the run of character c, or of digits, a line starts with
RECURSIVE CharRun(_, _)
CharRun(line, c) ==
    IF line # <<>> /\ Head(line) = Ch(c) THEN 1 + CharRun(Tail(line), c) ELSE 0
RECURSIVE DigitRun(_)
DigitRun(line) ==
    IF line # <<>> /\ Head(line).t = "ch" /\ IsDigit(Head(line).c)
    THEN 1 + DigitRun(Tail(line)) ELSE 0
\* \s+(.+)$ matches rest; the text of its group
SpacedText(rest) == Len(rest) >= 2 /\ IsSpaceTok(rest[1])
TextGroup(rest) ==
    IF LStripToks(rest) = <<>> THEN <<rest[Len(rest)]>> ELSE LStripToks(rest)

\* lines 125-129 on one line of the text: ^#{1,3}\s+(.+)$ becomes <hN>\1</hN>.
\* (In a text with no line made of hashes alone, \s+ never runs over a line
\* end, and the three substitutions work line by line.)
HeaderLine(line) ==
    LET n == CharRun(line, "#")
        rest == SubSeq(line, n + 1, Len(line))
    IN  IF n \in 1..3 /\ SpacedText(rest)
        THEN <<Html(<<"<h", Digits[n + 1], ">">>)>> \o TextGroup(rest)
             \o <<Html(<<"</h", Digits[n + 1], ">">>)>>
        ELSE line
HeaderLines(lines) == [k \in 1..Len(lines) |-> HeaderLine(lines[k])]
_convert_markdown_headers(text) == JoinLines(HeaderLines(SplitLines(text)))

\* ^\d+\. , ^(\d+)\.\s+(.+)$ and ^-\s+(.+)$ on a stripped line
StartsNumbered(s) ==
    DigitRun(s) >= 1 /\ Len(s) > DigitRun(s) /\ s[DigitRun(s) + 1] = Ch(".")
NumberedItem(s) == StartsNumbered(s) /\ SpacedText(SubSeq(s, DigitRun(s) + 2, Len(s)))
DashItem(s) == CharRun(s, "-") >= 1 /\ SpacedText(Tail(s))

\* the local variables of _process_lists (lines 135-141)
ListState(in_list, in_numbered_list, in_figure, section_counter, processed_lines) ==
    [in_list |-> in_list, in_numbered_list |-> in_numbered_list, in_figure |-> in_figure,
     section_counter |-> section_counter, processed_lines |-> processed_lines]
Emit(st, line) == [st EXCEPT !.processed_lines = Append(@, line)]
\* "if in_numbered_list: ... elif in_list: ...": the open list is closed; after
\* </ol> in_list stays set
CloseLists(st) ==
    IF st.in_numbered_list
    THEN [Emit(st, <<Html(<<"</ol>">>)>>) EXCEPT !.in_numbered_list = FALSE]
    ELSE IF st.in_list THEN [Emit(st, <<Html(<<"</ul>">>)>>) EXCEPT !.in_list = FALSE]
    ELSE st

\* lines 147-161
FigureStep(st, stripped) ==
    LET Has(part) == \E k \in 1..Len(stripped) :
                         stripped[k].t = "figline" /\ stripped[k].part = part
        opened == IF Has("figure") THEN [CloseLists(st) EXCEPT !.in_figure = TRUE] ELSE st
    IN  IF Has("/figure")
        THEN [opened EXCEPT !.in_figure = FALSE, !.section_counter = @ + 1]
        ELSE opened

\* lines 182-211: a numbered line after a blank line, after a line that is no
\* list item, inside a figure or once section_counter is positive starts a new
\* section (i is the 1-based index of the line)
SectionStep(st, lines, i, stripped) ==
    IF i > 1 /\ stripped # <<>> /\ StartsNumbered(stripped)
    THEN LET prev_line == StripToks(lines[i - 1])
             new_section ==
                 \/ prev_line = <<>>
                 \/ ~(CharRun(prev_line, "-") >= 1 \/ StartsNumbered(prev_line))
                 \/ st.in_figure
                 \/ st.section_counter > 0
         IN  IF new_section
             THEN [(IF st.in_list THEN CloseLists(st) ELSE st)
                      EXCEPT !.section_counter = @ + 1]
             ELSE st
    ELSE st

\* lines 214-276
ItemStep(st, lines, i, stripped) ==
    IF NumberedItem(stripped)
    THEN LET n == DigitRun(stripped)
             opened ==
                 IF ~st.in_numbered_list
                 THEN [Emit(st, <<Html(<<"<ol class=\"preserve-numbers\">">>)>>)
                          EXCEPT !.in_numbered_list = TRUE, !.in_list = TRUE]
                 ELSE st
         IN  Emit(opened,
                  <<Html(<<"<li value=\"">> \o CharsOf(SubSeq(stripped, 1, n)) \o <<"\">">>)>>
                  \o TextGroup(SubSeq(stripped, n + 2, Len(stripped)))
                  \o <<Html(<<"</li>">>)>>)
    ELSE IF DashItem(stripped)
    THEN LET closed ==
                 IF st.in_numbered_list
                 THEN [Emit(st, <<Html(<<"</ol>">>)>>) EXCEPT !.in_numbered_list = FALSE]
                 ELSE st
             opened ==
                 IF ~closed.in_list
                 THEN [Emit(closed, <<Html(<<"<ul>">>)>>) EXCEPT !.in_list = TRUE]
                 ELSE closed
         IN  Emit(opened,
                  <<Html(<<"<li>">>)>> \o TextGroup(Tail(stripped)) \o <<Html(<<"</li>">>)>>)
    ELSE LET broken ==
                 IF /\ stripped = <<>>
                    /\ i > 1
                    /\ i < Len(lines)
                    /\ StripToks(lines[i - 1]) = <<>>
                    /\ StartsNumbered(StripToks(lines[i + 1]))
                 THEN [CloseLists(st) EXCEPT !.section_counter = @ + 1]
                 ELSE st
             closed ==
                 IF /\ stripped # <<>>
                    /\ CharRun(stripped, "-") = 0
                    /\ ~StartsNumbered(stripped)
                 THEN CloseLists(broken)
                 ELSE broken
         IN  Emit(closed, lines[i])

\* lines 164-179, then the rest of the loop body for a line that is no header
HeaderOrItem(st, lines, i, stripped) ==
    IF /\ CharRun(stripped, "#") \in 1..6
       /\ SpacedText(SubSeq(stripped, CharRun(stripped, "#") + 1, Len(stripped)))
    THEN Emit([CloseLists(st) EXCEPT !.section_counter = @ + 1], lines[i])
    ELSE ItemStep(SectionStep(st, lines, i, stripped), lines, i, stripped)

\* the loop over the lines, and lines 278-282.  (section_counter is never
\* negative; reading it here makes TLC evaluate the state line by line.)
RECURSIVE ProcessLines(_, _, _)
ProcessLines(st, lines, i) ==
    IF i > Len(lines) \/ st.section_counter < 0 THEN CloseLists(st).processed_lines
    ELSE ProcessLines(
             HeaderOrItem(FigureStep(st, StripToks(lines[i])), lines, i, StripToks(lines[i])),
             lines, i + 1)
_process_lists(text) ==
    JoinLines(ProcessLines(ListState(FALSE, FALSE, FALSE, 0, <<>>), SplitLines(text), 1))

\* html_content.split('\n\n'): in a run of line ends the separators are its
\* first two, its next two, and so on; '\n\n'.join(html_paragraphs)
SplitBlank(text) ==
    LET IsEnd(k) == k \in 1..Len(text) /\ text[k] = Ch("\n")
        RunBefore(k) == CHOOSE r \in 0..(k - 1) :
                            /\ \A j \in (k - r)..(k - 1) : IsEnd(j)
                            /\ ~IsEnd(k - r - 1)
    IN  Pieces(text, {k \in 1..Len(text) : IsEnd(k) /\ IsEnd(k + 1) /\ RunBefore(k) % 2 = 0},
               2)
RECURSIVE JoinBlank(_)
JoinBlank(ps) ==
    IF ps = <<>> THEN <<>>
    ELSE IF Len(ps) = 1 THEN ps[1]
    ELSE ps[1] \o <<Ch("\n"), Ch("\n")>> \o JoinBlank(Tail(ps))

\* re.search(r'<(h[1-6]|ul|ol|li|figure)', p)
HasOpenTag(p) ==
    \E k \in 1..Len(p) :
        \/ p[k].t = "html"
           /\ p[k].s[1] \in {"<h", "<ul>", "<ol class=\"preserve-numbers\">", "<li>",
                             "<li value=\""}
        \/ p[k].t = "figline" /\ p[k].part = "figure"
\* lines 398-415 for a stripped paragraph that is not empty
HtmlParagraph(p) ==
    IF HasOpenTag(p) THEN p
    ELSE LET lines == SplitLines(p)
         IN  JoinLines([k \in 1..Len(lines) |->
                           <<Html(<<"<p>">>)>> \o lines[k] \o <<Html(<<"</p>">>)>>])
RECURSIVE HtmlParagraphs(_)
HtmlParagraphs(paragraphs) ==
    IF paragraphs = <<>> THEN <<>>
    ELSE (IF StripToks(Head(paragraphs)) = <<>> THEN <<>>
          ELSE <<HtmlParagraph(StripToks(Head(paragraphs)))>>)
         \o HtmlParagraphs(Tail(paragraphs))
\* lines 389-418
MarkdownPasses(html_content) ==
    JoinBlank(HtmlParagraphs(
        SplitBlank(_process_lists(_convert_markdown_headers(ExpandFigures(html_content))))))

\* generate_html: the markers replaced (lines 286-387), then the markdown
\* passes (lines 389-418)
ThenAssign(r, all_media_files) ==
    IF r.exc # NoExc THEN r
    ELSE Ok(MarkdownPasses(AssignUnprocessed(r.val, all_media_files)))
generate_html(blog_text, ms, all_media_files) ==
    ThenAssign(ReplaceMarkers(blog_text, ms, all_media_files), all_media_files)

(***************************************************************************)
(* test_markdown_fix.py: process_markdown_formatting, which the patched    *)
(* generate_html applies to blog_text before the original generate_html.   *)
(* Lines 44-50 rewrite backslash escapes; no text of the model holds a     *)
(* backslash, so the italics (line 53) and bold (line 56) passes remain.   *)
(***************************************************************************)
IsStar(text, k) == k \in 1..Len(text) /\ text[k] = Ch("*")
IsNewline(text, k) == k \in 1..Len(text) /\ text[k] = Ch("\n")
\* (?<!\*)\*(?!\*): a star with no star beside it
LoneStar(text, k) == IsStar(text, k) /\ ~IsStar(text, k - 1) /\ ~IsStar(text, k + 1)

\* (.+?) then the closing lone star: the first one on the line, 0 if none
RECURSIVE CloseStar(_, _)
CloseStar(text, j) ==
    IF j > Len(text) \/ IsNewline(text, j) THEN 0
    ELSE IF LoneStar(text, j) THEN j
    ELSE CloseStar(text, j + 1)

RECURSIVE Italics(_, _)
ItalicsAt(text, k, j) ==
    IF j # 0
    THEN <<Ch("<em>")>> \o SubSeq(text, k + 1, j - 1) \o <<Ch("</em>")>> \o Italics(text, j + 1)
    ELSE <<text[k]>> \o Italics(text, k + 1)
Italics(text, k) ==
    IF k > Len(text) THEN <<>>
    ELSE ItalicsAt(text, k, IF LoneStar(text, k) THEN CloseStar(text, k + 1) ELSE 0)

\* \*\*(.+?)\*\*: the closing pair of stars, the first on the line, 0 if none
RECURSIVE CloseBold(_, _)
CloseBold(text, j) ==
    IF j + 1 > Len(text) THEN 0
    ELSE IF IsStar(text, j) /\ IsStar(text, j + 1) THEN j
    ELSE IF IsNewline(text, j) THEN 0
    ELSE CloseBold(text, j + 1)

RECURSIVE Bold(_, _)
BoldAt(text, k, j) ==
    IF j # 0
    THEN <<Ch("<strong>")>> \o SubSeq(text, k + 2, j - 1) \o <<Ch("</strong>")>>
         \o Bold(text, j + 2)
    ELSE <<text[k]>> \o Bold(text, k + 1)
Bold(text, k) ==
    IF k > Len(text) THEN <<>>
    ELSE BoldAt(text, k,
                IF IsStar(text, k) /\ IsStar(text, k + 1) /\ k + 2 <= Len(text)
                   /\ ~IsNewline(text, k + 2)
                THEN CloseBold(text, k + 3) ELSE 0)

process_markdown_formatting(text) == Bold(Italics(text, 1), 1)

(***************************************************************************)
(* Sample inputs.                                                          *)
(***************************************************************************)
T_1_30 == <<"1", ":", "3", "0">>
T_90 == <<"9", "0">>
T_00_02_00 == <<"0", "0", ":", "0", "2", ":", "0", "0">>
T_15 == <<"1", "5">>
T_0 == <<"0">>
T_90_5 == <<"9", "0", ".", "5">>

\* [SCREENSHOT timestamp="1:30" align="left"]A
FShotLeft ==
    <<Br("SCREENSHOT", <<Attr("timestamp", T_1_30), Attr("align", <<"left">>)>>), Ch("A")>>
\* [SCREENSHOT timestamp="90"]
FShotBare == <<Br("SCREENSHOT", <<Attr("timestamp", T_90)>>)>>
\* [CLIP timestamp="00:02:00" duration="15"] I
FClipIntro ==
    <<Br("CLIP", <<Attr("timestamp", T_00_02_00), Attr("duration", T_15)>>), Ch(" "), Ch("I")>>
\* [CLIP timestamp="15" duration="0" align="right"]B
FClipZero ==
    <<Br("CLIP", <<Attr("timestamp", T_15), Attr("duration", T_0),
                   Attr("align", <<"right">>)>>), Ch("B")>>
\* [SCREENSHOT timestamp="90.5"]D
FShotDecimal == <<Br("SCREENSHOT", <<Attr("timestamp", T_90_5)>>), Ch("D")>>
\* [CLIP timestamp="15"]N
FClipNoDuration == <<Br("CLIP", <<Attr("timestamp", T_15)>>), Ch("N")>>
\* [CLIP duration="15" timestamp="15"]R
FClipReordered ==
    <<Br("CLIP", <<Attr("duration", T_15), Attr("timestamp", T_15)>>), Ch("R")>>
\* [IMAGE timestamp="90"]U
FUnknownKind == <<Br("IMAGE", <<Attr("timestamp", T_90)>>), Ch("U")>>
\* [SCREENSHOT align="left"]M
FShotNoTimestamp == <<Br("SCREENSHOT", <<Attr("align", <<"left">>)>>), Ch("M")>>
\* [SCREENSHOT timestamp="90" align="top"]T
FShotTop ==
    <<Br("SCREENSHOT", <<Attr("timestamp", T_90), Attr("align", <<"top">>)>>), Ch("T")>>
\* plain text
FText == <<Ch("x"), Ch(" ")>>

\* [SCREENSHOT timestamp="1:30"]*A*
FShotEm ==
    <<Br("SCREENSHOT", <<Attr("timestamp", T_1_30)>>), Ch("*"), Ch("A"), Ch("*")>>
\* [CLIP timestamp="00:02:00" duration="15"]*I*
FClipEm ==
    <<Br("CLIP", <<Attr("timestamp", T_00_02_00), Attr("duration", T_15)>>),
      Ch("*"), Ch("I"), Ch("*")>>

Fragment(toks) == [brk |-> FALSE, toks |-> toks]
ParaBreak == [brk |-> TRUE, toks |-> <<>>]
PipelineItems ==
    {Fragment(FShotLeft), Fragment(FShotBare), Fragment(FClipIntro), Fragment(FClipZero),
     ParaBreak}
ParseItems ==
    PipelineItems \cup {Fragment(FShotDecimal), Fragment(FClipNoDuration), Fragment(FText),
                        Fragment(FClipReordered), Fragment(FUnknownKind),
                        Fragment(FShotNoTimestamp), Fragment(FShotTop)}

RenderItems ==
    {Fragment(FShotEm), Fragment(FClipEm), Fragment(FShotLeft), Fragment(FClipIntro), ParaBreak}

\* marker lists handed to validate_markers on its own
ValidateSamples ==
    {MediaMarker("CLIP", PyInt(10), PyInt(15), <<"center">>, <<>>, <<>>),
     MediaMarker("CLIP", PyInt(10), PyInt(0), <<"center">>, <<>>, <<>>),
     MediaMarker("CLIP", PyInt(10), PyNone, <<"center">>, <<>>, <<>>),
     MediaMarker("CLIP", PyStr(T_1_30), PyInt(15), <<"center">>, <<>>, <<>>),
     MediaMarker("SCREENSHOT", PyInt(90), PyNone, <<"center">>, <<>>, <<>>),
     MediaMarker("SCREENSHOT", PyStr(T_1_30), PyNone, <<"left">>, <<>>, <<>>),
     MediaMarker("SCREENSHOT", PyStr(<<"a", "b">>), PyNone, <<"center">>, <<>>, <<>>)}

SeqsUpTo(S, n) == UNION {[1..k -> S] : k \in 0..n}

\* the paragraphs of a document written as fragments and paragraph breaks
RECURSIVE ParasOf(_, _)
ParasOf(items, cur) ==
    IF items = <<>> THEN <<cur>>
    ELSE IF Head(items).brk THEN <<cur>> \o ParasOf(Tail(items), <<>>)
    ELSE ParasOf(Tail(items), cur \o Head(items).toks)
Docs(Items) == {ParasOf(items, <<>>) : items \in SeqsUpTo(Items, MaxItems)}

\* what cv2 reports of the video: fps 0 for a file it cannot decode
Videos == {[fps |-> 0, frames |-> 0], [fps |-> 1, frames |-> 60], [fps |-> 1, frames |-> 600]}
DirectTimestampLists == {<<>>, <<5, 10>>, <<90>>}

(***************************************************************************)
(* State.                                                                  *)
(***************************************************************************)
VARIABLES
    docExists,        \* os.path.exists(doc_path)
    videoExists,      \* os.path.exists(video_path)
    video,            \* the properties of the video file
    doc,              \* the paragraphs of the document
    runs,             \* the process_blog runs under way at once, one record each
    scan,             \* extract_segments_from_text: the lines, the index i, the segments
    reel,             \* process_reel: the instructions, the cards and clips, the reel
    call,             \* the operation the caller invoked
    pc,               \* the position inside it
    markers,          \* the marker list
    spans,            \* the place in the document of each marker's match
    blog_text,
    result,           \* the ProcessingResult
    exc,              \* the exception last raised
    raised,           \* the exception that left the operation, if any
    stages,           \* the stages of process_blog run so far
    dirs,             \* the directories that exist
    files,            \* the files that exist
    extracted_files,  \* MediaExtractor.extracted_files
    extractOk,        \* what extract_all_media returned
    shotTs,           \* extract_screenshots_at_times: timestamps
    shotIdx,          \*   the loop index (1-based)
    timeStrBound,     \*   whether the local time_str has been assigned
    clipIdx,          \* _extract_clips: the loop index (1-based)
    all_media_files,  \* HTMLGenerator.all_media_files
    html_content,     \* the text returned by generate_html
    htmls,            \* what each call of generate_html by a direct caller returned
    given_str,        \* the string a caller hands to a time function
    given_timestamps, \* the list a caller hands to validate_timestamps
    returned          \* what the functions called on them returned, call by call

inputVars == <<docExists, videoExists, video, doc>>
otherVars == <<runs, scan, reel>>
parseVars == <<markers, spans, blog_text>>
fsVars == <<dirs, files>>
shotVars == <<shotTs, shotIdx, timeStrBound>>
renderVars == <<all_media_files, html_content, htmls>>
helperVars == <<given_str, given_timestamps, returned>>
vars == <<docExists, videoExists, video, doc, runs, scan, reel,
          call, pc, markers, spans, blog_text, result,
          exc, raised, stages, dirs, files, extracted_files, extractOk, shotTs, shotIdx,
          timeStrBound, clipIdx, all_media_files, html_content, htmls, given_str,
          given_timestamps, returned>>

NoTracked == [clips |-> <<>>, screenshots |-> <<>>]
\* ProcessingResult(success=False, errors=[], warnings=[])
NewResult == [success |-> FALSE, html_path |-> PyNone, media_folder |-> PyNone,
              errors |-> <<>>, warnings |-> <<>>]

\* no time function and no validate_timestamps is called on its own
NoScan == [pc |-> "idle", lines |-> <<>>, i |-> 0, segments |-> <<>>, raised |-> FALSE]
NoReel == [pc |-> "idle", instructions |-> <<>>, main_title |-> PyNone, segments |-> <<>>,
           title_card_paths |-> <<>>, video_clip_paths |-> <<>>, all_paths |-> <<>>,
           exc |-> "none"]
\* neither two runs at once nor the highlight reel is under way
NoOtherCall == runs = <<>> /\ scan = NoScan /\ reel = NoReel
NoHelperCall ==
    /\ given_str = <<>>
    /\ given_timestamps = <<>>
    /\ returned = <<>>
\* everything but the inputs, before any operation is called
NothingParsed ==
    /\ markers = <<>>
    /\ spans = <<>>
    /\ blog_text = <<>>
NoPipelineRun ==
    /\ call = "idle"
    /\ pc = "idle"
    /\ result = NewResult
    /\ exc = NoExc
    /\ raised = NoExc
    /\ stages = <<>>
    /\ dirs = {}
    /\ files = {}
    /\ extracted_files = NoTracked
    /\ extractOk = FALSE
    /\ shotTs = <<>>
    /\ shotIdx = 1
    /\ timeStrBound = FALSE
    /\ clipIdx = 1
    /\ all_media_files = <<>>
    /\ html_content = <<>>
    /\ htmls = <<>>
    /\ NoHelperCall
NothingRun == NoPipelineRun /\ NoOtherCall
Fresh == NothingParsed /\ NothingRun

Init ==
    /\ docExists \in BOOLEAN
    /\ videoExists \in BOOLEAN
    /\ video \in (IF videoExists THEN Videos ELSE {[fps |-> 0, frames |-> 0]})
    /\ doc \in (IF docExists THEN Docs(PipelineItems) ELSE {<<>>})
    /\ Fresh

(***************************************************************************)
(* BlogProcessor.process_blog                                              *)
(***************************************************************************)
\* "except Exception": the classes the handler of process_blog catches
ExceptionClasses ==
    {"FileNotFoundError", "PackageNotFoundError", "TypeError", "ValueError", "RuntimeError",
     "ZeroDivisionError", "UnboundLocalError"}
\* a handler that names the classes it expects instead of Exception
ProcessBlogCatchesExpected(e) == e \in {"FileNotFoundError", "RuntimeError"}
ProcessBlogCatches(e) == e \in ExceptionClasses

\* lines 104-115: the result is created, the input files are checked
ProcessBlogStart ==
    /\ pc = "idle"
    /\ call' = "process_blog"
    /\ result' = NewResult
    /\ IF ~docExists \/ ~videoExists
       THEN exc' = "FileNotFoundError" /\ pc' = "except"
       ELSE exc' = exc /\ pc' = "parse"
    /\ UNCHANGED <<inputVars, otherVars, helperVars,
                   parseVars, raised, stages, fsVars, extracted_files, extractOk,
                   shotVars, clipIdx, renderVars>>

Parsed(r) ==
    /\ markers' = r.markers
    /\ spans' = r.spans
    /\ blog_text' = r.text

\* lines 117-121: Document(doc_path) raises on a file that is no docx package
ProcessBlogParse ==
    /\ pc = "parse"
    /\ \E isDocx \in BOOLEAN :
          IF isDocx
          THEN /\ Parsed(extract_markers(doc))
               /\ stages' = Append(stages, "parse")
               /\ pc' = "validate"
               /\ exc' = exc
          ELSE /\ exc' = "PackageNotFoundError"
               /\ pc' = "except"
               /\ UNCHANGED <<parseVars, stages>>
    /\ UNCHANGED <<inputVars, otherVars, helperVars, call, result, raised, fsVars, extracted_files, extractOk,
                   shotVars, clipIdx, renderVars>>

Validated(r) ==
    IF r.exc # NoExc
    THEN exc' = r.exc /\ pc' = "except" /\ UNCHANGED <<result, stages>>
    ELSE /\ result' = [result EXCEPT !.warnings = @ \o r.val]
         /\ stages' = Append(stages, "validate")
         /\ pc' = "mkdirs"
         /\ exc' = exc

\* lines 123-130
ProcessBlogValidate ==
    /\ pc = "validate"
    /\ call = "process_blog"
    /\ Validated(validate_markers(markers))
    /\ UNCHANGED <<inputVars, otherVars, helperVars,
                   call, parseVars, raised, fsVars, extracted_files, extractOk,
                   shotVars, clipIdx, renderVars>>

\* lines 132-139 and _create_output_dirs; without markers the media are skipped
ProcessBlogCreateDirs ==
    /\ pc = "mkdirs"
    /\ dirs' = dirs \cup {BlogDir, MediaDir}
    /\ result' = [result EXCEPT !.media_folder = PyStr(MediaDir)]
    /\ pc' = IF markers = <<>> THEN "render" ELSE "extract"
    /\ UNCHANGED <<inputVars, otherVars, helperVars,
                   call, parseVars, exc, raised, stages, files, extracted_files,
                   extractOk, shotVars, clipIdx, renderVars>>

(***************************************************************************)
(* BlogProcessor._extract_media and MediaExtractor.extract_all_media       *)
(***************************************************************************)
screenshot_markers == OfType(markers, "SCREENSHOT")
clip_markers == OfType(markers, "CLIP")
\* after the screenshots: the clips if there are any, else the batch is done
AfterScreenshots == IF clip_markers # <<>> THEN "clips" ELSE "extract_return"

\* _extract_media to the call of extract_screenshots_at_times: a new
\* MediaExtractor, the checks of extract_all_media, the timestamps collected
ExtractMediaStart ==
    /\ pc = "extract"
    /\ stages' = Append(stages, "extract_begin")
    /\ extracted_files' = NoTracked
    /\ clipIdx' = 1
    /\ IF ~videoExists
       THEN /\ exc' = "FileNotFoundError"
            /\ extractOk' = FALSE
            /\ pc' = "extract_return"
            /\ UNCHANGED <<dirs, shotVars>>
       ELSE /\ dirs' = dirs \cup {MediaDir}
            /\ exc' = exc
            /\ extractOk' = TRUE
            /\ IF NumericTimestamps(screenshot_markers) # <<>>
               THEN /\ shotTs' = NumericTimestamps(screenshot_markers)
                    /\ pc' = "shots_open"
                    /\ UNCHANGED <<shotIdx, timeStrBound>>
               ELSE /\ pc' = AfterScreenshots
                    /\ UNCHANGED shotVars
    /\ UNCHANGED <<inputVars, otherVars, helperVars, call, parseVars, result, raised, files, renderVars>>

(***************************************************************************)
(* screenshot_extractor.extract_screenshots_at_times(video, MediaDir, ts)  *)
(***************************************************************************)
\* an exception leaves extract_screenshots_at_times: called directly it reaches
\* the caller; called by _extract_screenshots it is re-raised to
\* extract_all_media, which returns False
ShotsRaise(e) ==
    /\ exc' = e
    /\ IF call = "direct"
       THEN raised' = e /\ pc' = "done" /\ UNCHANGED extractOk
       ELSE extractOk' = FALSE /\ pc' = "extract_return" /\ UNCHANGED raised

\* the checks with the timestamps validated before the video is looked for
ShotsInputErrorTimestampsFirst(timestamps) ==
    IF validate_timestamps(timestamps, TRUE).exc # NoExc THEN "ValueError"
    ELSE IF ~videoExists THEN "FileNotFoundError"
    ELSE IF video.fps = 0 THEN "ZeroDivisionError"
    ELSE NoExc

\* lines 17-35: what the checks and the division by fps raise, in their order
ShotsInputError(timestamps) ==
    IF ~videoExists THEN "FileNotFoundError"
    ELSE IF validate_timestamps(timestamps, TRUE).exc # NoExc THEN "ValueError"
    ELSE IF video.fps = 0 THEN "ZeroDivisionError"
    ELSE NoExc

\* lines 17-35: the checks, the sub-folder, the video opened
ShotsOpen ==
    /\ pc = "shots_open"
    /\ LET e == ShotsInputError(shotTs)
       IN  /\ dirs' = IF e \in {NoExc, "ZeroDivisionError"}
                      THEN dirs \cup {video_output_dir(MediaDir)} ELSE dirs
           /\ IF e # NoExc
              THEN ShotsRaise(e) /\ UNCHANGED <<shotIdx, timeStrBound>>
              ELSE /\ shotIdx' = 1
                   /\ timeStrBound' = FALSE
                   /\ pc' = "shots_loop"
                   /\ UNCHANGED <<exc, raised, extractOk>>
    /\ UNCHANGED <<inputVars, otherVars, helperVars,
                   call, parseVars, result, stages, files, extracted_files, shotTs,
                   clipIdx, renderVars>>

\* lines 41-65: one iteration of the loop; video.read() may fail, and fails
\* for a frame past the last one
ShotsFrame ==
    /\ pc = "shots_loop"
    /\ shotIdx <= Len(shotTs)
    /\ LET timestamp == shotTs[shotIdx]
       IN  IF timestamp * video.fps > video.frames
           THEN /\ shotIdx' = shotIdx + 1
                /\ UNCHANGED <<pc, exc, raised, extractOk, files, timeStrBound>>
           ELSE \E ret \in (IF timestamp * video.fps < video.frames THEN BOOLEAN ELSE {FALSE}) :
                   IF ret
                   THEN /\ files' = files \cup {File(video_output_dir(MediaDir),
                                                    ScreenshotName(shotIdx, timestamp))}
                        /\ timeStrBound' = TRUE
                        /\ shotIdx' = shotIdx + 1
                        /\ UNCHANGED <<pc, exc, raised, extractOk>>
                   ELSE IF timeStrBound
                   THEN /\ shotIdx' = shotIdx + 1
                        /\ UNCHANGED <<pc, exc, raised, extractOk, files, timeStrBound>>
                   ELSE /\ ShotsRaise("UnboundLocalError")
                        /\ UNCHANGED <<files, timeStrBound, shotIdx>>
    /\ UNCHANGED <<inputVars, otherVars, helperVars,
                   call, parseVars, result, stages, dirs, extracted_files, shotTs,
                   clipIdx, renderVars>>

\* line 68: the loop is over
ShotsEnd ==
    /\ pc = "shots_loop"
    /\ shotIdx > Len(shotTs)
    /\ pc' = IF call = "direct" THEN "done" ELSE "shots_track"
    /\ UNCHANGED <<inputVars, otherVars, helperVars, call, parseVars, result, exc, raised, stages, fsVars,
                   extracted_files, extractOk, shotVars, clipIdx, renderVars>>

\* the caller invokes extract_screenshots_at_times itself
DirectExtractScreenshots ==
    /\ pc = "idle"
    /\ \E ts \in DirectTimestampLists : shotTs' = ts
    /\ call' = "direct"
    /\ pc' = "shots_open"
    /\ UNCHANGED <<inputVars, otherVars, helperVars,
                   parseVars, result, exc, raised, stages, fsVars, extracted_files,
                   extractOk, shotIdx, timeStrBound, clipIdx, renderVars>>

(***************************************************************************)
(* MediaExtractor._extract_screenshots (after the call) and _extract_clips *)
(***************************************************************************)
\* media_extractor.py lines 151-169
TrackScreenshots ==
    /\ pc = "shots_track"
    /\ extracted_files' =
          [extracted_files EXCEPT !.screenshots =
              @ \o TrackedScreenshots(screenshot_markers, 1, MediaDir)]
    /\ pc' = AfterScreenshots
    /\ UNCHANGED <<inputVars, otherVars, helperVars,
                   call, parseVars, result, exc, raised, stages, fsVars, extractOk,
                   shotVars, clipIdx, renderVars>>

\* one iteration of the loop of _extract_clips: extract_video_clip checks its
\* arguments, then ffmpeg writes the clip or fails
ExtractClip ==
    /\ pc = "clips"
    /\ clipIdx <= Len(clip_markers)
    /\ LET marker == clip_markers[clipIdx]
           e == IF ~videoExists THEN "FileNotFoundError"
                ELSE IF validate_timestamps(<<marker.timestamp.i>>, TRUE).exc # NoExc
                THEN "ValueError"
                ELSE IF marker.duration.i <= 0 THEN "ValueError"
                ELSE NoExc
           output_path == File(MediaDir, ClipName(marker.timestamp.i, marker.duration.i))
       IN  IF marker.timestamp.ty # "int" \/ marker.duration.ty # "int"
           THEN /\ clipIdx' = clipIdx + 1
                /\ UNCHANGED <<pc, exc, extractOk, fsVars, extracted_files>>
           ELSE IF e # NoExc
           THEN /\ exc' = e
                /\ extractOk' = FALSE
                /\ pc' = "extract_return"
                /\ UNCHANGED <<fsVars, extracted_files, clipIdx>>
           ELSE \E ffmpegOk \in BOOLEAN :
                   /\ dirs' = dirs \cup {MediaDir}
                   /\ IF ffmpegOk
                      THEN /\ files' = files \cup {output_path}
                           /\ extracted_files' =
                                 [extracted_files EXCEPT !.clips = Append(@, output_path)]
                           /\ clipIdx' = clipIdx + 1
                           /\ UNCHANGED <<pc, exc, extractOk>>
                      ELSE /\ exc' = "RuntimeError"
                           /\ extractOk' = FALSE
                           /\ pc' = "extract_return"
                           /\ UNCHANGED <<files, extracted_files, clipIdx>>
    /\ UNCHANGED <<inputVars, otherVars, helperVars,
                   call, parseVars, result, raised, stages, shotVars, renderVars>>

ClipsEnd ==
    /\ pc = "clips"
    /\ clipIdx > Len(clip_markers)
    /\ pc' = "extract_return"
    /\ UNCHANGED <<inputVars, otherVars, helperVars, call, parseVars, result, exc, raised, stages, fsVars,
                   extracted_files, extractOk, shotVars, clipIdx, renderVars>>

\* a process_blog that goes on to render whatever _extract_media returned
ExtractMediaReturnUnchecked ==
    /\ pc = "extract_return"
    /\ stages' = Append(stages, "extract_end")
    /\ IF extractOk
       THEN UNCHANGED <<files, extracted_files>>
       ELSE /\ files' = cleanup_failed_extractions(files, extracted_files)
            /\ extracted_files' = NoTracked
    /\ pc' = "render"
    /\ UNCHANGED <<inputVars, otherVars, helperVars,
                   call, parseVars, result, exc, raised, dirs, extractOk, shotVars,
                   clipIdx, renderVars>>

\* _extract_media lines 85-92 and process_blog lines 159-160: a failed batch is
\* cleaned up and process_blog raises RuntimeError
ExtractMediaReturn ==
    /\ pc = "extract_return"
    /\ stages' = Append(stages, "extract_end")
    /\ IF extractOk
       THEN /\ pc' = "render"
            /\ UNCHANGED <<exc, files, extracted_files>>
       ELSE /\ files' = cleanup_failed_extractions(files, extracted_files)
            /\ extracted_files' = NoTracked
            /\ exc' = "RuntimeError"
            /\ pc' = "except"
    /\ UNCHANGED <<inputVars, otherVars, helperVars,
                   call, parseVars, result, raised, dirs, extractOk, shotVars,
                   clipIdx, renderVars>>

(***************************************************************************)
(* process_blog: rendering, the HTML file, the exception handler           *)
(***************************************************************************)
Rendered(r) ==
    IF r.exc # NoExc
    THEN exc' = r.exc /\ pc' = "except" /\ UNCHANGED <<html_content, stages>>
    ELSE /\ html_content' = r.val
         /\ stages' = Append(stages, "render")
         /\ pc' = "write"
         /\ exc' = exc

\* lines 143-145 and 163-166: a new HTMLGenerator scans the files, then
\* generate_html
ProcessBlogRender ==
    /\ pc = "render"
    /\ call = "process_blog"
    /\ \E order \in ScanOrders(files, BlogDir) :
          /\ all_media_files' = order
          /\ Rendered(generate_html(blog_text, markers, order))
    /\ UNCHANGED <<inputVars, otherVars, helperVars, call, parseVars, result, raised, fsVars, extracted_files,
                   extractOk, shotVars, clipIdx, htmls>>

NoMarkersWarning == <<"No media markers found in the document">>

\* lines 147-155 and 168-174
ProcessBlogWrite ==
    /\ pc = "write"
    /\ files' = files \cup {HtmlFile}
    /\ result' = [result EXCEPT !.html_path = PyStr(PathStr(HtmlFile)),
                                !.success = TRUE,
                                !.warnings = IF markers = <<>> THEN Append(@, NoMarkersWarning)
                                             ELSE @]
    /\ stages' = Append(stages, "write")
    /\ pc' = "done"
    /\ UNCHANGED <<inputVars, otherVars, helperVars,
                   call, parseVars, exc, raised, dirs, extracted_files, extractOk,
                   shotVars, clipIdx, renderVars>>

\* lines 181-190
ProcessBlogExcept ==
    /\ pc = "except"
    /\ IF ProcessBlogCatches(exc)
       THEN /\ result' = [result EXCEPT !.errors = Append(@, <<"Error processing blog: ", exc>>)]
            /\ UNCHANGED raised
       ELSE /\ raised' = exc
            /\ UNCHANGED result
    /\ pc' = "done"
    /\ UNCHANGED <<inputVars, otherVars, helperVars,
                   call, parseVars, exc, stages, fsVars, extracted_files, extractOk,
                   shotVars, clipIdx, renderVars>>

\* an extract_all_media that reports an empty marker list as a failure
EmptyListReturnFailed == FALSE
\* media_extractor.py lines 68-73: "if not markers: ... return True"
EmptyListReturn == TRUE
\* MediaExtractor(MediaDir).extract_all_media(video_path, []) called on its own:
\* lines 53-73, and the except clause for a video that does not exist
DirectExtractAllMedia ==
    /\ pc = "idle"
    /\ markers = <<>>
    /\ call' = "extract_all_media"
    /\ extracted_files' = NoTracked
    /\ IF ~videoExists
       THEN /\ exc' = "FileNotFoundError"
            /\ extractOk' = FALSE
            /\ UNCHANGED dirs
       ELSE /\ dirs' = dirs \cup {BlogDir, MediaDir}
            /\ extractOk' = EmptyListReturn
            /\ UNCHANGED exc
    /\ pc' = "done"
    /\ UNCHANGED <<inputVars, otherVars, helperVars, parseVars, result, raised, stages, files, shotVars,
                   clipIdx, renderVars>>

Next ==
    \/ ProcessBlogStart
    \/ ProcessBlogParse
    \/ ProcessBlogValidate
    \/ ProcessBlogCreateDirs
    \/ ExtractMediaStart
    \/ ShotsOpen
    \/ ShotsFrame
    \/ ShotsEnd
    \/ DirectExtractScreenshots
    \/ TrackScreenshots
    \/ ExtractClip
    \/ ClipsEnd
    \/ ExtractMediaReturn
    \/ ProcessBlogRender
    \/ ProcessBlogWrite
    \/ ProcessBlogExcept
    \/ DirectExtractAllMedia

Spec == Init /\ [][Next]_vars

(***************************************************************************)
(* Properties of the pipeline (Spec).                                      *)
(***************************************************************************)
InSeq(x, s) == \E k \in 1..Len(s) : s[k] = x
IsPrefix(a, b) == Len(a) <= Len(b) /\ SubSeq(b, 1, Len(a)) = a
InProcessBlog == call = "process_blog"
BatchFailed == InProcessBlog /\ InSeq("extract_end", stages) /\ ~extractOk

\* C1: once the extraction batch has reported failure and the clean-up has
\* run, no media file remains under the media directory, and process_blog
\* reports success = false.
C1_RollbackLeavesNoMedia ==
    BatchFailed =>
        /\ MediaFilesUnder(files, MediaDir) = {}
        /\ ~result.success

\* C2: with the video (or, for process_blog, the document) missing, the
\* operation fails at once with FileNotFoundError - reported in the result by
\* process_blog, raised by extract_screenshots_at_times for any timestamp list -
\* and no directory or file has been created and no stage has run.
C2_NoOutputWithoutInputs ==
    /\ (InProcessBlog /\ (~docExists \/ ~videoExists)) =>
           /\ pc \in {"except", "done"}
           /\ exc = "FileNotFoundError"
           /\ dirs = {} /\ files = {} /\ stages = <<>>
           /\ pc = "done" => (~result.success /\ result.errors # <<>>)
    /\ (call = "direct" /\ ~videoExists) =>
           /\ pc \in {"shots_open", "done"}
           /\ dirs = {} /\ files = {}
           /\ pc = "done" => raised = "FileNotFoundError"
C2_MissingVideoEmptyTimestamps ==
    /\ call = "direct" /\ ~videoExists /\ shotTs = <<>>
    /\ pc = "done" /\ raised = "FileNotFoundError"

\* C3: no exception leaves process_blog, and the result it returns has
\* success = true with no errors and html_path set, or success = false with
\* errors and html_path unset.
C3_ResultWellFormed ==
    InProcessBlog =>
        /\ raised = NoExc
        /\ result.success => (result.errors = <<>> /\ result.html_path # PyNone)
        /\ (pc = "done" /\ ~result.success) =>
               (result.errors # <<>> /\ result.html_path = PyNone)
C3_UnreadableDocumentReported ==
    /\ InProcessBlog /\ pc = "done" /\ exc = "PackageNotFoundError"
    /\ ~result.success /\ Len(result.errors) = 1

\* the stage log of a complete run, with and without markers
StageOrder == <<"parse", "validate", "extract_begin", "extract_end", "render", "write">>
StageOrderNoMarkers == <<"parse", "validate", "render", "write">>

\* C4: the stages run in the order parse, validate, extract, render (the
\* extraction skipped only for an empty marker list), each begun after the
\* one before has ended; the rendering and blog_post.html come only after an
\* extraction that reported success, so none exists after a failed one.
C4_StagesInOrder ==
    InProcessBlog =>
        /\ IsPrefix(stages, StageOrder)
           \/ (markers = <<>> /\ IsPrefix(stages, StageOrderNoMarkers))
        /\ (InSeq("render", stages) /\ markers # <<>>) => extractOk
        /\ (HtmlFile \in files) = InSeq("write", stages)
        /\ BatchFailed => (HtmlFile \notin files /\ ~InSeq("render", stages))
C4_FailedBatchNoHtml ==
    /\ BatchFailed /\ pc = "done"
    /\ HtmlFile \notin files

SameTimestampScreenshots ==
    \E j, k \in 1..Len(markers) :
        /\ j < k
        /\ markers[j].type = "SCREENSHOT" /\ markers[k].type = "SCREENSHOT"
        /\ markers[j].timestamp = markers[k].timestamp

\* C7: two SCREENSHOT markers with the same timestamp make the validator
\* warn: after the validation the result holds a warning.
C7_DuplicateTimestampWarned ==
    (InProcessBlog /\ InSeq("validate", stages) /\ SameTimestampScreenshots)
        => result.warnings # <<>>

ZeroDurationClip(k) == markers[k].type = "CLIP" /\ markers[k].duration = PyInt(0)

\* C8: a CLIP marker of duration 0 gets the warning "Clip #i has duration less
\* than 1 second", stays in the marker list, and the run goes on to the
\* extraction, where the clip is attempted.
C8_ZeroDurationAdvisory ==
    (InProcessBlog /\ InSeq("validate", stages)) =>
        /\ \A k \in 1..Len(markers) :
               ZeroDurationClip(k) => InSeq(DurationWarning(k), result.warnings)
        /\ markers = extract_markers(doc).markers
        /\ (markers # <<>> /\ pc \in {"except", "done"}) => InSeq("extract_begin", stages)
C8_ZeroDurationClipAttempted ==
    /\ InProcessBlog /\ pc = "extract_return" /\ exc = "ValueError"
    /\ clipIdx <= Len(clip_markers)
    /\ clip_markers[clipIdx].duration = PyInt(0)
    /\ \E k \in 1..Len(markers) :
           ZeroDurationClip(k) /\ InSeq(DurationWarning(k), result.warnings)

(***************************************************************************)
(* BlogDocumentReader.extract_markers called on its own (SpecParse).       *)
(***************************************************************************)
NoVideo == [fps |-> 0, frames |-> 0]
InitParse ==
    /\ docExists = TRUE
    /\ videoExists = FALSE
    /\ video = NoVideo
    /\ doc \in Docs(ParseItems)
    /\ Fresh

DirectExtractMarkers ==
    /\ pc = "idle"
    /\ call' = "extract_markers"
    /\ Parsed(extract_markers(doc))
    /\ pc' = "done"
    /\ UNCHANGED <<inputVars, otherVars, helperVars,
                   result, exc, raised, stages, fsVars, extracted_files, extractOk,
                   shotVars, clipIdx, renderVars>>

NextParse == DirectExtractMarkers
SpecParse == InitParse /\ [][NextParse]_vars

ParseDone == call = "extract_markers" /\ pc = "done"
SpanBefore(a, b) == a[1] < b[1] \/ (a[1] = b[1] /\ a[2] < b[2])

\* C5: the list extract_markers returns is in reading order: a marker whose
\* span starts earlier in the document stands earlier in the list.
C5_ReadingOrder ==
    ParseDone =>
        \A j, k \in 1..Len(spans) : SpanBefore(spans[j], spans[k]) => j < k

\* a marker as written in a paragraph, and the fields written in it
Written(frag, type, secs, duration, align, caption) ==
    [frag |-> frag,
     marker |-> [type |-> type, timestamp |-> PyInt(secs), duration |-> duration,
                 align |-> align, caption |-> caption]]
WellFormedSamples ==
    {Written(FShotLeft, "SCREENSHOT", 90, PyNone, <<"left">>, <<"A">>),
     Written(FShotBare, "SCREENSHOT", 90, PyNone, <<"center">>, <<>>),
     Written(FClipIntro, "CLIP", 120, PyInt(15), <<"center">>, <<"I">>),
     Written(FClipZero, "CLIP", 15, PyInt(0), <<"right">>, <<"B">>),
     Written(FShotDecimal, "SCREENSHOT", 90, PyNone, <<"center">>, <<"D">>)}
FieldsOf(m) ==
    [type |-> m.type, timestamp |-> m.timestamp, duration |-> m.duration,
     align |-> m.align, caption |-> m.caption]

\* C6: a paragraph holding one well-formed bracket marker yields exactly one
\* marker, with the kind, the seconds, the duration, the alignment (center
\* when align is omitted) and the caption written in it.  The timestamps
\* written are 1:30, 90, 00:02:00, 15 and the decimal seconds 90.5.
C6_OneMarkerAsWritten ==
    ParseDone =>
        \A w \in WellFormedSamples :
            doc \in {<<w.frag>>, <<FText \o w.frag>>} =>
                (Len(markers) = 1 /\ FieldsOf(markers[1]) = w.marker)

(***************************************************************************)
(* BlogDocumentReader.validate_markers called on its own (SpecValidate).   *)
(***************************************************************************)
InitValidate ==
    /\ docExists = FALSE
    /\ videoExists = FALSE
    /\ video = NoVideo
    /\ doc = <<>>
    /\ markers \in SeqsUpTo(ValidateSamples, MaxValMarkers)
    /\ spans = <<>>
    /\ blog_text = <<>>
    /\ NothingRun

\* the caller gets the warnings, or the exception validate_markers let through
Returned(r) ==
    IF r.exc # NoExc
    THEN raised' = r.exc /\ exc' = r.exc /\ UNCHANGED result
    ELSE result' = [result EXCEPT !.warnings = r.val] /\ UNCHANGED <<exc, raised>>

DirectValidateMarkers ==
    /\ pc = "idle"
    /\ call' = "validate_markers"
    /\ Returned(validate_markers(markers))
    /\ pc' = "done"
    /\ UNCHANGED <<inputVars, otherVars, helperVars,
                   parseVars, stages, fsVars, extracted_files, extractOk, shotVars,
                   clipIdx, renderVars>>

NextValidate == DirectValidateMarkers
SpecValidate == InitValidate /\ [][NextValidate]_vars

\* C9: validate_markers raises no exception, whatever the marker list: a CLIP
\* whose duration is None and a timestamp that is an unparsable string included.
C9_ValidateNeverRaises ==
    (call = "validate_markers" /\ pc = "done") => raised = NoExc

(***************************************************************************)
(* test_markdown_fix.py: process_blog with generate_html patched           *)
(* (SpecRender).                                                           *)
(***************************************************************************)
InitRender ==
    /\ docExists = TRUE
    /\ videoExists = TRUE
    /\ video \in Videos
    /\ doc \in Docs(RenderItems)
    /\ Fresh

\* new_generate_html (lines 64-69) in the place of generate_html
PatchedProcessBlogRender ==
    /\ pc = "render"
    /\ call = "process_blog"
    /\ \E order \in ScanOrders(files, BlogDir) :
          /\ all_media_files' = order
          /\ Rendered(generate_html(process_markdown_formatting(blog_text), markers, order))
    /\ UNCHANGED <<inputVars, otherVars, helperVars, call, parseVars, result, raised, fsVars, extracted_files,
                   extractOk, shotVars, clipIdx, htmls>>

NextRender ==
    \/ ProcessBlogStart
    \/ ProcessBlogParse
    \/ ProcessBlogValidate
    \/ ProcessBlogCreateDirs
    \/ ExtractMediaStart
    \/ ShotsOpen
    \/ ShotsFrame
    \/ ShotsEnd
    \/ TrackScreenshots
    \/ ExtractClip
    \/ ClipsEnd
    \/ ExtractMediaReturn
    \/ PatchedProcessBlogRender
    \/ ProcessBlogWrite
    \/ ProcessBlogExcept
SpecRender == InitRender /\ [][NextRender]_vars

\* the text holds, as raw bracket syntax, a marker of m's kind whose timestamp
\* is within 5 seconds of m's
RawBracketNear(text, m) ==
    \E k \in 1..Len(text) :
        /\ IsBracket(text[k])
        /\ text[k].kind = m.type
        /\ AttrSearch(text[k].attrs, "timestamp") # <<>>
        /\ parse_time(AttrSearch(text[k].attrs, "timestamp")).exc = NoExc
        /\ Abs(parse_time(AttrSearch(text[k].attrs, "timestamp")).val - m.timestamp.i) <= 5
\* generate_html was handed a text in which m's source text no longer occurs,
\* but which still holds m's bracket, and a file extracted for m exists
Drifted(m) ==
    /\ ~IsSubstring(m.original_text, process_markdown_formatting(blog_text))
    /\ RawBracketNear(process_markdown_formatting(blog_text), m)
    /\ _find_media_file_by_timestamp(m.timestamp, m.type, all_media_files).found

\* C10: a marker of either kind whose source text has drifted is still
\* replaced by a figure: no bracket of its kind and time is left in the HTML.
C10_DriftedMarkerReplaced ==
    (InProcessBlog /\ InSeq("render", stages)) =>
        \A k \in 1..Len(markers) :
            Drifted(markers[k]) => ~RawBracketNear(html_content, markers[k])

\* the raw brackets of a kind in a text, and the scanned files of a kind
RawBrackets(text, kind) ==
    {k \in 1..Len(text) : IsBracket(text[k]) /\ text[k].kind = kind}
FilesOfKind(kind) == Len(SelectFiles(all_media_files, kind))
EnoughFiles(text) ==
    \A kind \in {"CLIP", "SCREENSHOT"} :
        FilesOfKind(kind) >= Cardinality(RawBrackets(text, kind))

\* C11: when, for each kind, the media folder holds at least as many files of
\* the kind as the text handed to generate_html holds markers of the kind, the
\* HTML holds no raw CLIP or SCREENSHOT bracket.
C11_NoRawMarkerWhenEnoughFiles ==
    (InProcessBlog /\ InSeq("render", stages) /\ EnoughFiles(blog_text)) =>
        \A kind \in {"CLIP", "SCREENSHOT"} : RawBrackets(html_content, kind) = {}

(***************************************************************************)
(* HTMLGenerator used on its own (SpecGenerate): a caller reads a          *)
(* document, builds a generator over a media folder and calls              *)
(* generate_html, up to MaxCalls times on the same generator.              *)
(***************************************************************************)
MaxPrefix == 2
MaxCalls == 2

\* the paragraphs "1. A", "2. B", "", "1. C"
L_1A == <<Ch("1"), Ch("."), Ch(" "), Ch("A")>>
L_2B == <<Ch("2"), Ch("."), Ch(" "), Ch("B")>>
L_1C == <<Ch("1"), Ch("."), Ch(" "), Ch("C")>>
RestartedList == <<L_1A, L_2B, <<>>, L_1C>>
\* what may stand before the list: text, an empty paragraph, a marker
PrefixParas == {FText, <<>>, FShotBare}
RestartDocs == {prefix \o RestartedList : prefix \in SeqsUpTo(PrefixParas, MaxPrefix)}
\* a line of n '#', a space and the text H
HeaderPara(n) == [k \in 1..n |-> Ch("#")] \o <<Ch(" "), Ch("H")>>
HeaderDocs ==
    {prefix \o <<HeaderPara(n)>> \o suffix :
        n \in 1..6, prefix \in {<<>>, <<FText>>}, suffix \in {<<>>, <<FText>>}}
GenerateDocs == RestartDocs \cup HeaderDocs \cup Docs(PipelineItems)

\* files a media folder may hold
MediaFolders ==
    SUBSET {File(video_output_dir(MediaDir), ScreenshotName(1, 90)),
            File(video_output_dir(MediaDir), ScreenshotName(2, 90)),
            File(MediaDir, ClipName(120, 15)),
            File(MediaDir, ClipName(15, 5))}

InitGenerate ==
    /\ docExists = TRUE
    /\ videoExists = FALSE
    /\ video = NoVideo
    /\ doc \in GenerateDocs
    /\ NothingParsed
    /\ call = "idle"
    /\ pc = "idle"
    /\ result = NewResult
    /\ exc = NoExc
    /\ raised = NoExc
    /\ stages = <<>>
    /\ dirs = {BlogDir, MediaDir, video_output_dir(MediaDir)}
    /\ files \in MediaFolders
    /\ extracted_files = NoTracked
    /\ extractOk = FALSE
    /\ shotTs = <<>>
    /\ shotIdx = 1
    /\ timeStrBound = FALSE
    /\ clipIdx = 1
    /\ all_media_files = <<>>
    /\ html_content = <<>>
    /\ htmls = <<>>
    /\ NoHelperCall
    /\ NoOtherCall

\* the caller reads the document with extract_markers
GenerateRead ==
    /\ pc = "idle"
    /\ call' = "generate_html"
    /\ Parsed(extract_markers(doc))
    /\ pc' = "scan"
    /\ UNCHANGED <<inputVars, otherVars, helperVars,
                   result, exc, raised, stages, fsVars, extracted_files, extractOk,
                   shotVars, clipIdx, renderVars>>

\* HTMLGenerator(media_dir): __init__ scans the folder
NewHTMLGenerator ==
    /\ call = "generate_html"
    /\ pc = "scan"
    /\ all_media_files' \in ScanOrders(files, BlogDir)
    /\ pc' = "generate"
    /\ UNCHANGED <<inputVars, otherVars, helperVars, call, parseVars, result, exc, raised, stages, fsVars,
                   extracted_files, extractOk, shotVars, clipIdx, html_content, htmls>>

\* a generate_html that takes the first file off the generator's list
AfterGenerateConsumed(scanned) == IF scanned = <<>> THEN <<>> ELSE Tail(scanned)
\* self.all_media_files after generate_html: the method assigns no attribute
\* of the generator
AfterGenerate(scanned) == scanned

GenerateReturned(r) ==
    IF r.exc # NoExc
    THEN /\ raised' = r.exc
         /\ exc' = r.exc
         /\ pc' = "done"
         /\ UNCHANGED <<html_content, htmls>>
    ELSE /\ html_content' = r.val
         /\ htmls' = Append(htmls, r.val)
         /\ UNCHANGED <<exc, raised, pc>>

\* generator.generate_html(blog_text, markers)
DirectGenerateHtml ==
    /\ call = "generate_html"
    /\ pc = "generate"
    /\ Len(htmls) < MaxCalls
    /\ GenerateReturned(generate_html(blog_text, markers, all_media_files))
    /\ all_media_files' = AfterGenerate(all_media_files)
    /\ UNCHANGED <<inputVars, otherVars, helperVars, call, parseVars, result, stages, fsVars, extracted_files,
                   extractOk, shotVars, clipIdx>>

NextGenerate ==
    \/ GenerateRead
    \/ NewHTMLGenerator
    \/ DirectGenerateHtml
SpecGenerate == InitGenerate /\ [][NextGenerate]_vars

\* generate_html was called by the direct caller and has returned or raised
GenerateCalled == call = "generate_html" /\ (htmls # <<>> \/ raised # NoExc)
\* the screenshot brackets the exact and the re-scan replacement left
LeftAfter(r) == IF r.exc # NoExc THEN <<>> ELSE RemainingMarkers(r.val)
LeftForLastResort == LeftAfter(ReplaceMarkers(blog_text, markers, all_media_files))
\* none of the three tiers has a file for marker m: the lookup by timestamp
\* finds none, and for a screenshot the last-resort pass has fewer files than
\* the place of m's bracket among the brackets left
NoFileFound(m) ==
    /\ ~_find_media_file_by_timestamp(m.timestamp, m.type, all_media_files).found
    /\ m.type = "SCREENSHOT" =>
           /\ InSeq(Head(m.original_text), LeftForLastResort)
           /\ \A i \in 1..Len(LeftForLastResort) :
                  LeftForLastResort[i] = Head(m.original_text)
                      => i > Len(SelectFiles(all_media_files, "SCREENSHOT"))

\* C12: when none of the three tiers has a file for a marker, generate_html
\* raises nothing and the marker's bracket stands unchanged in the HTML.
C12_UnmatchedMarkerLeftRaw ==
    GenerateCalled =>
        \A k \in 1..Len(markers) :
            NoFileFound(markers[k]) =>
                raised = NoExc /\ InSeq(Head(markers[k].original_text), html_content)
\* a clip marker and a screenshot marker, both without a file, while another
\* marker was replaced by a figure
C12_UnmatchedBesideFigure ==
    /\ GenerateCalled
    /\ \E k \in 1..Len(markers) : markers[k].type = "CLIP" /\ NoFileFound(markers[k])
    /\ \E k \in 1..Len(markers) : markers[k].type = "SCREENSHOT" /\ NoFileFound(markers[k])
    /\ \E k \in 1..Len(html_content) : html_content[k].t = "figline"

\* the ordered lists of an HTML text in outline: "ol" where a list opens, the
\* written value of each item, "/ol" where a list closes
ListOutline(html) ==
    LET IsMark(tok) ==
            /\ tok.t = "html"
            /\ Head(tok.s) \in {"<ol class=\"preserve-numbers\">", "<li value=\"", "</ol>"}
        marks == SelectSeq(html, IsMark)
    IN  [k \in 1..Len(marks) |->
            IF Head(marks[k].s) = "<li value=\"" THEN SubSeq(marks[k].s, 2, Len(marks[k].s) - 1)
            ELSE IF Head(marks[k].s) = "</ol>" THEN <<"/ol">>
            ELSE <<"ol">>]
TwoListsOutline ==
    << <<"ol">>, <<"1">>, <<"2">>, <<"/ol">>, <<"ol">>, <<"1">>, <<"/ol">> >>

\* C13: wherever the list 1. A, 2. B, blank line, 1. C stands in the document,
\* the HTML holds exactly two ordered lists, the first with the items 1 and 2,
\* the second with the item 1.
C13_RestartedListTwoLists ==
    (GenerateCalled /\ doc \in RestartDocs /\ htmls # <<>>) =>
        ListOutline(html_content) = TwoListsOutline
\* the same for the list at the start of the document only
C13_RestartedListAtStart ==
    (GenerateCalled /\ doc = RestartedList /\ htmls # <<>>) =>
        ListOutline(html_content) = TwoListsOutline

AllDigits(s) == s # <<>> /\ \A k \in 1..Len(s) : IsDigit(s[k])
\* lines 31-47: digits alone, or two or three parts around ':'
ClockParts(ints) ==
    IF Len(ints) \in {2, 3} THEN SecondsOfParts(ints, Raise("ValueError"))
    ELSE Raise("ValueError")
parse_timestamp(timestamp_str) ==
    IF AllDigits(Strip(timestamp_str)) THEN Ok(DigitsVal(Strip(timestamp_str), 0))
    ELSE ClockParts(IntParts(Split(Strip(timestamp_str), ":")))

\* s.strip(chars)
RECURSIVE LStripOf(_, _)
LStripOf(s, chars) == IF s # <<>> /\ Head(s) \in chars THEN LStripOf(Tail(s), chars) ELSE s
RECURSIVE RStripOf(_, _)
RStripOf(s, chars) ==
    IF s # <<>> /\ s[Len(s)] \in chars THEN RStripOf(SubSeq(s, 1, Len(s) - 1), chars) ELSE s
StripOf(s, chars) == RStripOf(LStripOf(s, chars), chars)

\* the digits, and the white space, that start at place k of s
DigitsFrom(s, k) ==
    CHOOSE n \in 0..(Len(s) - k + 1) :
        /\ \A j \in k..(k + n - 1) : IsDigit(s[j])
        /\ k + n > Len(s) \/ ~IsDigit(s[k + n])
SpacesFrom(s, k) ==
    CHOOSE n \in 0..(Len(s) - k + 1) :
        /\ \A j \in k..(k + n - 1) : IsSpace(s[j])
        /\ k + n > Len(s) \/ ~IsSpace(s[k + n])
\* re.search(r'(\d+)\s*' + unit, s): where the matches start
UnitMatches(s, unit) ==
    {k \in 1..Len(s) :
        /\ IsDigit(s[k])
        /\ LET w == k + DigitsFrom(s, k)
               u == w + SpacesFrom(s, w)
           IN  u + Len(unit) - 1 <= Len(s) /\ SubSeq(s, u, u + Len(unit) - 1) = unit}
\* int(match.group(1)) if match else 0, for the leftmost match
UnitValue(s, unit) ==
    IF UnitMatches(s, unit) = {} THEN 0
    ELSE LET k == CHOOSE k \in UnitMatches(s, unit) : \A j \in UnitMatches(s, unit) : k <= j
         IN  DigitsVal(SubSeq(s, k, k + DigitsFrom(s, k) - 1), 0)
\* lines 65-69: int() of the first two parts around ':'
MinutesSeconds(ints) ==
    IF ints[1].exc # NoExc \/ ints[2].exc # NoExc THEN Raise("ValueError")
    ELSE Ok(ints[1].val * 60 + ints[2].val)
\* lines 61-78, for the string with white space and parentheses stripped
DurationOf(s) ==
    IF \E k \in 1..Len(s) : s[k] = ":" THEN MinutesSeconds(IntParts(Split(s, ":")))
    ELSE Ok(UnitValue(s, <<"m", "i", "n", "u", "t", "e">>) * 60
            + UnitValue(s, <<"s", "e", "c", "o", "n", "d">>))
parse_duration(duration_str) == DurationOf(StripOf(Strip(duration_str), {"(", ")"}))

(***************************************************************************)
(* The time functions and validate_timestamps called on their own          *)
(* (SpecHelpers).                                                          *)
(***************************************************************************)
MaxTimestamps == 3

\* H:MM:SS and M:SS strings
ClockStrings ==
    {h \o <<":">> \o m \o <<":">> \o sec :
        h \in {<<"0">>, <<"1">>, <<"2", "5">>},
        m \in {<<"0", "0">>, <<"0", "1">>, <<"5", "9">>},
        sec \in {<<"0", "0">>, <<"3", "0">>}}
    \cup {m \o <<":">> \o sec :
        m \in {<<"1">>, <<"0", "1">>, <<"9", "0">>},
        sec \in {<<"0", "0">>, <<"3", "0">>}}
\* bare seconds, durations in words, and strings that are no time
OtherStrings ==
    {<<"9", "0">>, <<" ", "9", "0", " ">>, <<"-", "5">>, <<"9", "0", ".", "5">>,
     <<>>, <<"a", "b", "c">>, <<"-", "1", ":", "3", "0">>, <<"1", ":", "-", "3", "0">>,
     <<"1", ":", "x">>, <<"1", ":", "2", ":", "3", ":", "4">>,
     <<"(", "0", "1", ":", "3", "0", ")">>,
     <<"1", " ", "m", "i", "n", "u", "t", "e", " ", "3", "0", " ",
       "s", "e", "c", "o", "n", "d", "s">>,
     <<"(", "4", "5", " ", "s", "e", "c", "o", "n", "d", "s", ")">>,
     <<"5", " ", "a", "p", "p", "l", "e", "s">>}
TimeStrings == ClockStrings \cup OtherStrings
TimestampLists == SeqsUpTo({0 - 1, 0, 10, 60}, MaxTimestamps)

InitHelpers ==
    /\ docExists = FALSE
    /\ videoExists = FALSE
    /\ video = NoVideo
    /\ doc = <<>>
    /\ NothingParsed
    /\ call = "idle"
    /\ pc = "idle"
    /\ result = NewResult
    /\ exc = NoExc
    /\ raised = NoExc
    /\ stages = <<>>
    /\ dirs = {}
    /\ files = {}
    /\ extracted_files = NoTracked
    /\ extractOk = FALSE
    /\ shotTs = <<>>
    /\ shotIdx = 1
    /\ timeStrBound = FALSE
    /\ clipIdx = 1
    /\ all_media_files = <<>>
    /\ html_content = <<>>
    /\ htmls = <<>>
    /\ NoOtherCall
    /\ given_str \in TimeStrings
    /\ given_timestamps \in TimestampLists
    /\ returned = <<>>

\* one call, with its argument and what it returned or raised
Called(fn, arg, r) == [fn |-> fn, arg |-> arg, r |-> r]
HelperStep(fn, arg, r, next_pc) ==
    /\ call' = fn
    /\ returned' = Append(returned, Called(fn, arg, r))
    /\ raised' = r.exc
    /\ pc' = IF r.exc # NoExc THEN "done" ELSE next_pc
    /\ UNCHANGED <<inputVars, otherVars, given_str, given_timestamps, parseVars, result, exc, stages,
                   fsVars, extracted_files, extractOk, shotVars, clipIdx, renderVars>>

\* BlogDocumentReader().parse_time(given_str)
DirectParseTime ==
    /\ pc = "idle"
    /\ HelperStep("parse_time", given_str, parse_time(given_str), "parsed")
\* the seconds it returned, written as every file name writes a time:
\* str(timedelta(seconds=...)).replace(':', '-')
FormatSeconds ==
    /\ pc = "parsed"
    /\ HelperStep("timedelta", returned[1].r.val,
                  Ok(FormattedTime(returned[1].r.val)), "formatted")
\* parse_time of the time so written
ParseTimeBack ==
    /\ pc = "formatted"
    /\ HelperStep("parse_time", returned[2].r.val, parse_time(returned[2].r.val), "done")
\* parse_timestamp(given_str)
DirectParseTimestamp ==
    /\ pc = "idle"
    /\ HelperStep("parse_timestamp", given_str, parse_timestamp(given_str), "done")
\* parse_duration(given_str)
DirectParseDuration ==
    /\ pc = "idle"
    /\ HelperStep("parse_duration", given_str, parse_duration(given_str), "done")
\* the default of the parameter allow_duplicates
DefaultAllowDuplicates == TRUE
\* validate_timestamps(given_timestamps)
DirectValidateTimestamps ==
    /\ pc = "idle"
    /\ HelperStep("validate_timestamps", given_timestamps,
                  validate_timestamps(given_timestamps, DefaultAllowDuplicates), "done")

NextHelpers ==
    \/ DirectParseTime
    \/ FormatSeconds
    \/ ParseTimeBack
    \/ DirectParseTimestamp
    \/ DirectParseDuration
    \/ DirectValidateTimestamps
SpecHelpers == InitHelpers /\ [][NextHelpers]_vars

\* an H:MM:SS or M:SS string: two or three parts of digits around ':', the
\* minutes and seconds after the first part below 60
ValidClock(s) ==
    LET parts == Split(s, ":")
    IN  /\ Len(parts) \in {2, 3}
        /\ \A k \in 1..Len(parts) : AllDigits(parts[k])
        /\ \A k \in 2..Len(parts) : Len(parts[k]) = 2 /\ DigitsVal(parts[k], 0) < 60
RoundTripDone == Len(returned) = 3

\* C15: for a valid H:MM:SS or M:SS string, parse_time of the time written as
\* file names write it gives the seconds parse_time of the string gave.
C15_FilenameTimeRoundTrip ==
    (RoundTripDone /\ ValidClock(given_str)) => returned[3].r = returned[1].r

\* the shapes the functions document: seconds in digits or a clock string for
\* parse_time and parse_timestamp; for parse_duration a clock string or a
\* count of minutes or seconds in words, in parentheses or not
ClockShape(s) ==
    /\ Len(Split(s, ":")) \in {2, 3}
    /\ \A k \in 1..Len(Split(s, ":")) : AllDigits(Split(s, ":")[k])
WordsShape(s) ==
    \/ UnitMatches(s, <<"m", "i", "n", "u", "t", "e">>) # {}
    \/ UnitMatches(s, <<"s", "e", "c", "o", "n", "d">>) # {}
AcceptedShape(fn, s) ==
    IF fn = "parse_duration"
    THEN ClockShape(StripOf(Strip(s), {"(", ")"})) \/ WordsShape(StripOf(Strip(s), {"(", ")"}))
    ELSE AllDigits(Strip(s)) \/ ClockShape(Strip(s))
TimeParsers == {"parse_time", "parse_timestamp", "parse_duration"}

\* C16: whatever the string, parse_time, parse_timestamp and parse_duration
\* either raise or return a number of seconds >= 0 read from a string of an
\* accepted shape.
C16_NoNegativeNoGarbage ==
    \A k \in 1..Len(returned) :
        (returned[k].fn \in TimeParsers /\ returned[k].r.exc = NoExc) =>
            /\ returned[k].r.val >= 0
            /\ AcceptedShape(returned[k].fn, returned[k].arg)
\* the same for one of the functions at a time
C16_ParseTimeOnly ==
    \A k \in 1..Len(returned) :
        (returned[k].fn = "parse_time" /\ returned[k].r.exc = NoExc) =>
            returned[k].r.val >= 0 /\ AcceptedShape(returned[k].fn, returned[k].arg)
C16_ParseTimestampOnly ==
    \A k \in 1..Len(returned) :
        (returned[k].fn = "parse_timestamp" /\ returned[k].r.exc = NoExc) =>
            returned[k].r.val >= 0 /\ AcceptedShape(returned[k].fn, returned[k].arg)
C16_ParseDurationOnly ==
    \A k \in 1..Len(returned) :
        (returned[k].fn = "parse_duration" /\ returned[k].r.exc = NoExc) =>
            returned[k].r.val >= 0 /\ AcceptedShape(returned[k].fn, returned[k].arg)

HasDuplicates(ts) == \E j, k \in 1..Len(ts) : j # k /\ ts[j] = ts[k]
HasNegative(ts) == \E k \in 1..Len(ts) : ts[k] < 0
\* C20: validate_timestamps called with a list alone raises ValueError for an
\* empty list, for a list with a negative timestamp and for a list with a
\* duplicate timestamp, and raises nothing for any other list.
C20_DuplicatesRaiseByDefault ==
    \A k \in 1..Len(returned) :
        returned[k].fn = "validate_timestamps" =>
            (returned[k].r.exc = "ValueError"
                <=> \/ returned[k].arg = <<>>
                    \/ HasNegative(returned[k].arg)
                    \/ HasDuplicates(returned[k].arg))
\* the same without the duplicates
C20_EmptyOrNegativeRaise ==
    \A k \in 1..Len(returned) :
        (returned[k].fn = "validate_timestamps" /\ ~HasDuplicates(returned[k].arg)) =>
            (returned[k].r.exc = "ValueError"
                <=> returned[k].arg = <<>> \/ HasNegative(returned[k].arg))

\* the paragraphs of the document that hold the fragment
HoldsFragment(frag) == \E p \in 1..Len(doc) : IsSubstring(frag, doc[p])
DecimalBracket == Head(FShotDecimal)

\* C17: a marker written with the decimal seconds 90.5 yields a marker whose
\* timestamp is 90; it is not dropped.
C17_DecimalSecondsTruncated ==
    (ParseDone /\ HoldsFragment(FShotDecimal)) =>
        \E k \in 1..Len(markers) :
            /\ Head(markers[k].original_text) = DecimalBracket
            /\ markers[k].timestamp = PyInt(90)

\* brackets no pattern takes: a CLIP without duration, attributes in another
\* order, a keyword that is no marker kind, a SCREENSHOT without timestamp
MalformedFragments == {FClipNoDuration, FClipReordered, FUnknownKind, FShotNoTimestamp}
MalformedBrackets == {Head(frag) : frag \in MalformedFragments}

\* C18: a CLIP bracket without duration, and any other bracket no pattern
\* takes, is part of no marker, and stands as written in the text
\* extract_markers returns.
C18_MalformedBracketNoMarker ==
    ParseDone =>
        /\ \A k \in 1..Len(markers) :
               \A j \in 1..Len(markers[k].original_text) :
                   markers[k].original_text[j] \notin MalformedBrackets
        /\ \A frag \in MalformedFragments :
               HoldsFragment(frag) => IsSubstring(frag, blog_text)
\* a CLIP bracket without duration right after the caption of a marker that
\* was read, in one paragraph
C18_NoDurationBesideMarker ==
    /\ ParseDone
    /\ HoldsFragment(FShotLeft \o FClipNoDuration)
    /\ markers # <<>>

ExtractAllMediaDone == call = "extract_all_media" /\ pc = "done"
NoExtractorRun ==
    /\ shotTs = <<>>
    /\ shotIdx = 1
    /\ clipIdx = 1
    /\ extracted_files = NoTracked
\* C19: with an existing video and an empty marker list, extract_all_media
\* returns True, runs no extractor, tracks no file and writes none; and
\* process_blog on a document without markers writes the HTML, and only the
\* HTML, and reports success.
C19_EmptyMarkerListNoOp ==
    /\ (ExtractAllMediaDone /\ videoExists) =>
           extractOk /\ NoExtractorRun /\ files = {}
    /\ (InProcessBlog /\ pc = "done" /\ InSeq("parse", stages) /\ markers = <<>>) =>
           /\ result.success
           /\ result.html_path = PyStr(PathStr(HtmlFile))
           /\ files = {HtmlFile}
           /\ NoExtractorRun
           /\ ~InSeq("extract_begin", stages)
\* extract_all_media has returned for an empty list and an existing video
C19_EmptyListExtracted ==
    ExtractAllMediaDone /\ videoExists /\ markers = <<>> /\ MediaDir \in dirs
\* process_blog is done for a document without markers
C19_NoMarkerBlogWritten ==
    InProcessBlog /\ pc = "done" /\ InSeq("parse", stages) /\ markers = <<>> /\ result.success

Alignments == {<<"left">>, <<"center">>, <<"right">>}
\* C22: every marker extract_markers returns has the alignment left, center or
\* right, whatever the document wrote after align.
C22_AlignmentInEnum ==
    ParseDone => \A k \in 1..Len(markers) : markers[k].align \in Alignments
\* the same for the documents that write left, center, right or no align
C22_WrittenAlignmentKept ==
    (ParseDone /\ ~HoldsFragment(<<Head(FShotTop)>>)) =>
        \A k \in 1..Len(markers) : markers[k].align \in Alignments

\* the document has a paragraph that is the header line of level n
HoldsHeader(n) == \E p \in 1..Len(doc) : doc[p] = HeaderPara(n)
HeadingElement(n) ==
    <<Html(<<"<h", Digits[n + 1], ">">>), Ch("H"), Html(<<"</h", Digits[n + 1], ">">>)>>
WrappedInParagraph(elem) == <<Html(<<"<p>">>)>> \o elem \o <<Html(<<"</p>">>)>>
\* C23: a line of one to six '#', white space and text is in the HTML the
\* heading element of that level, and is not wrapped in a paragraph element.
C23_HeadingPerLevel ==
    (GenerateCalled /\ htmls # <<>>) =>
        \A n \in 1..6 :
            HoldsHeader(n) =>
                /\ IsSubstring(HeadingElement(n), html_content)
                /\ ~IsSubstring(WrappedInParagraph(HeadingElement(n)), html_content)
                /\ ~IsSubstring(WrappedInParagraph(HeaderPara(n)), html_content)
\* the same for the levels one to three
C23_HeadingUpToThree ==
    (GenerateCalled /\ htmls # <<>>) =>
        \A n \in 1..3 :
            HoldsHeader(n) =>
                /\ IsSubstring(HeadingElement(n), html_content)
                /\ ~IsSubstring(WrappedInParagraph(HeadingElement(n)), html_content)

(***************************************************************************)
(* HTMLGenerator._process_lists called on its own (SpecLists), on texts as *)
(* generate_html hands them over: headers of levels one to three converted *)
(* and figures in place.                                                   *)
(***************************************************************************)
MaxLines == 4

\* "- x", "foo", "-y", "#### H", "<h1>H</h1>", and a line with a figure
L_DashX == <<Ch("-"), Ch(" "), Ch("x")>>
L_Foo == <<Ch("f"), Ch("o"), Ch("o")>>
L_DashNoSpace == <<Ch("-"), Ch("y")>>
L_H1 == HeaderLine(HeaderPara(1))
L_Figure == <<Figure("img", <<"center">>, File(MediaDir, ScreenshotName(1, 90)), <<>>)>>
ListLineKinds ==
    {L_1A, L_2B, L_DashX, <<>>, L_Foo, L_DashNoSpace, HeaderPara(4), L_H1, L_Figure}
ListTexts == {ExpandFigures(JoinLines(ls)) : ls \in SeqsUpTo(ListLineKinds, MaxLines)}

InitLists ==
    /\ docExists = FALSE
    /\ videoExists = FALSE
    /\ video = NoVideo
    /\ doc = <<>>
    /\ markers = <<>>
    /\ spans = <<>>
    /\ blog_text \in ListTexts
    /\ NothingRun

\* HTMLGenerator(media_dir)._process_lists(blog_text)
DirectProcessLists ==
    /\ pc = "idle"
    /\ call' = "_process_lists"
    /\ html_content' = _process_lists(blog_text)
    /\ pc' = "done"
    /\ UNCHANGED <<inputVars, otherVars, helperVars, parseVars, result, exc, raised, stages, fsVars,
                   extracted_files, extractOk, shotVars, clipIdx, all_media_files, htmls>>

NextLists == DirectProcessLists
SpecLists == InitLists /\ [][NextLists]_vars

ListsDone == call = "_process_lists" /\ pc = "done"
\* what a line of the output is: a list tag, an item of a numbered or of a
\* dash list, a blank line, or anything else (a heading, a line of a figure,
\* plain text)
FirstPiece(line) ==
    IF line # <<>> /\ Head(line).t = "html" THEN Head(Head(line).s) ELSE ""
LineKind(line) ==
    IF StripToks(line) = <<>> THEN "blank"
    ELSE IF FirstPiece(line) = "<ol class=\"preserve-numbers\">" THEN "ol"
    ELSE IF FirstPiece(line) = "</ol>" THEN "/ol"
    ELSE IF FirstPiece(line) = "<ul>" THEN "ul"
    ELSE IF FirstPiece(line) = "</ul>" THEN "/ul"
    ELSE IF FirstPiece(line) = "<li value=\"" THEN "li_ol"
    ELSE IF FirstPiece(line) = "<li>" THEN "li_ul"
    ELSE "other"
KindsOf(text) == [k \in 1..Len(SplitLines(text)) |-> LineKind(SplitLines(text)[k])]
ListTagKinds == {"ol", "/ol", "ul", "/ul"}
\* the last list tag before line k of the output, "none" when there is none
TagBefore(kinds, k) ==
    LET T == {j \in 1..(k - 1) : kinds[j] \in ListTagKinds}
    IN  IF T = {} THEN "none" ELSE kinds[CHOOSE j \in T : \A h \in T : h <= j]

\* C26: no heading, figure line or plain text line of the output stands
\* between the opening tag of a list and its closing tag.
C26_NothingButItemsInList ==
    ListsDone =>
        \A k \in 1..Len(KindsOf(html_content)) :
            KindsOf(html_content)[k] = "other" =>
                TagBefore(KindsOf(html_content), k) \notin {"ol", "ul"}
\* the same for texts in which no plain text line starts with a dash
C26_TextNotStartingWithDash ==
    (ListsDone /\ \A k \in 1..Len(SplitLines(blog_text)) :
                      SplitLines(blog_text)[k] # L_DashNoSpace) =>
        \A k \in 1..Len(KindsOf(html_content)) :
            KindsOf(html_content)[k] = "other" =>
                TagBefore(KindsOf(html_content), k) \notin {"ol", "ul"}

\* the places of the lines of a kind
PlacesOf(kinds, kind) ==
    LET Is(k) == kinds[k] = kind
    IN  SelectSeq([k \in 1..Len(kinds) |-> k], Is)
NumberedPlaces(text) ==
    LET Is(k) == NumberedItem(StripToks(SplitLines(text)[k]))
    IN  SelectSeq([k \in 1..Len(SplitLines(text)) |-> k], Is)
\* the items of two numbered lines stand in one ordered list
SameList(kinds, a, b) ==
    /\ TagBefore(kinds, a) = "ol"
    /\ \A k \in a..b : kinds[k] \notin ListTagKinds
\* C27: the items of numbered lines that follow each other directly stand in
\* one ordered list, one item per line, wherever the lines are in the text.
C27_RunIsOneList ==
    ListsDone =>
        /\ Len(PlacesOf(KindsOf(html_content), "li_ol")) = Len(NumberedPlaces(blog_text))
        /\ \A j \in 1..(Len(NumberedPlaces(blog_text)) - 1) :
               NumberedPlaces(blog_text)[j + 1] = NumberedPlaces(blog_text)[j] + 1 =>
                   SameList(KindsOf(html_content),
                            PlacesOf(KindsOf(html_content), "li_ol")[j],
                            PlacesOf(KindsOf(html_content), "li_ol")[j + 1])
\* the same for a run that starts on the first line of the text
C27_RunOnFirstLine ==
    (ListsDone /\ Len(NumberedPlaces(blog_text)) >= 2
        /\ NumberedPlaces(blog_text)[1] = 1 /\ NumberedPlaces(blog_text)[2] = 2) =>
           SameList(KindsOf(html_content), PlacesOf(KindsOf(html_content), "li_ol")[1],
                    PlacesOf(KindsOf(html_content), "li_ol")[2])

\* C28: the list tags are well nested: a list opens only when none is open, a
\* closing tag closes the open list of its type, every item stands in an open
\* list of its type, and no list is open at the end.
WellNested(kinds) ==
    /\ \A k \in 1..Len(kinds) :
           /\ kinds[k] \in {"ol", "ul"} => TagBefore(kinds, k) \notin {"ol", "ul"}
           /\ kinds[k] \in {"/ol", "li_ol"} => TagBefore(kinds, k) = "ol"
           /\ kinds[k] \in {"/ul", "li_ul"} => TagBefore(kinds, k) = "ul"
    /\ TagBefore(kinds, Len(kinds) + 1) \notin {"ol", "ul"}
C28_ListTagsWellNested == ListsDone => WellNested(KindsOf(html_content))
\* the same for texts of dash items and plain text only
C28_DashListsWellNested ==
    (ListsDone /\ NumberedPlaces(blog_text) = <<>>) => WellNested(KindsOf(html_content))

\* the file the extractors write for marker number k of the list: a clip by
\* its timestamp and duration, a screenshot by its place among the
\* screenshot markers and its timestamp
ShotSeq(k) == Cardinality({j \in 1..k : markers[j].type = "SCREENSHOT"})
ProducedFor(k) ==
    IF markers[k].type = "CLIP"
    THEN File(MediaDir, ClipName(markers[k].timestamp.i, markers[k].duration.i))
    ELSE File(video_output_dir(MediaDir), ScreenshotName(ShotSeq(k), markers[k].timestamp.i))
\* the bracket of marker k is gone from the HTML: a figure stands for it
ReplacedByFigure(k) ==
    /\ ~InSeq(Head(markers[k].original_text), html_content)
    /\ \E j \in 1..Len(html_content) : html_content[j].t = "figline"
FigureOf(k, file) ==
    \E j \in 1..Len(html_content) :
        /\ html_content[j].t = "figline"
        /\ html_content[j].fig = ElementFor(markers[k], file)

\* C24: the figure that stands for a marker holds the file the extractors
\* wrote for that marker.
C24_FigureHoldsOwnFile ==
    (InProcessBlog /\ InSeq("render", stages)) =>
        \A k \in 1..Len(markers) : ReplacedByFigure(k) => FigureOf(k, ProducedFor(k))
\* the same for documents in which no two markers of a kind have one timestamp
C24_DistinctTimestamps ==
    (InProcessBlog /\ InSeq("render", stages)
       /\ \A j, k \in 1..Len(markers) :
              (j # k /\ markers[j].type = markers[k].type)
                  => markers[j].timestamp # markers[k].timestamp) =>
        \A k \in 1..Len(markers) : ReplacedByFigure(k) => FigureOf(k, ProducedFor(k))
\* the same for the clip markers of a generator used on its own, over a folder
\* of clips cut earlier
C24_ClipHoldsOwnFile ==
    (GenerateCalled /\ htmls # <<>>) =>
        \A k \in 1..Len(markers) :
            (markers[k].type = "CLIP" /\ ReplacedByFigure(k)) => FigureOf(k, ProducedFor(k))

BatchSucceeded == InProcessBlog /\ InSeq("extract_end", stages) /\ extractOk
\* screenshot_extractor.py: the path the extractor writes the k-th timestamp's
\* frame to
WrittenFor(k) == File(video_output_dir(MediaDir), ScreenshotName(k, shotTs[k]))
\* C25: after a successful batch the path tracked for a screenshot marker is
\* the path at which the screenshot extractor wrote that marker's file.
C25_TrackedIsWritten ==
    BatchSucceeded =>
        \A k \in 1..Len(extracted_files.screenshots) :
            WrittenFor(k) \in files => extracted_files.screenshots[k] = WrittenFor(k)
\* and so every tracked screenshot path names an existing file
C25_TrackedScreenshotsExist ==
    BatchSucceeded =>
        \A k \in 1..Len(extracted_files.screenshots) :
            WrittenFor(k) \in files => extracted_files.screenshots[k] \in files
\* the tracked name is the name of the file written, sequence number and
\* timestamp included: only the directory differs
C25_TrackedNamesWritten ==
    BatchSucceeded =>
        /\ Len(extracted_files.screenshots) = Len(shotTs)
        /\ \A k \in 1..Len(extracted_files.screenshots) :
              /\ extracted_files.screenshots[k].name = WrittenFor(k).name
              /\ extracted_files.screenshots[k].dir = MediaDir
C25_ScreenshotWritten ==
    BatchSucceeded /\ \E k \in 1..Len(extracted_files.screenshots) : WrittenFor(k) \in files

(***************************************************************************)
(* Two BlogProcessor.process_blog runs at once over one file system, each  *)
(* BlogProcessor with its own output_base_dir.  A step of a run is one     *)
(* call that reads or writes the file system.                              *)
(***************************************************************************)
Runs == {1, 2}
\* a, b and a/b: two directories apart, and one inside the other
OutputBaseDirs == {<<"a">>, <<"b">>, <<"a", "/", "b">>}
\* datetime.now().strftime("%Y%m%d_%H%M%S"): two runs may start in one second
Stamps == {<<"20240101_000000">>, <<"20240101_000001">>}
RunDocs ==
    {ParasOf(items, <<>>) :
        items \in {<<Fragment(FShotBare)>>, <<Fragment(FClipIntro)>>,
                   <<Fragment(FShotBare), Fragment(FClipIntro)>>,
                   <<Fragment(FClipIntro), Fragment(FClipIntro)>>}}

\* a _create_output_dirs that puts every run under the default directory
CreateOutputDirsShared(output_base_dir, video_name, timestamp) ==
    LET blog_dir == <<"processed_blogs", "/">> \o video_name \o <<"_">> \o timestamp
    IN  [blog_dir |-> blog_dir, media_dir |-> blog_dir \o <<"/">> \o video_name]
\* blog_processor.py lines 55-64
_create_output_dirs(output_base_dir, video_name, timestamp) ==
    LET blog_dir == output_base_dir \o <<"/">> \o video_name \o <<"_">> \o timestamp
    IN  [blog_dir |-> blog_dir, media_dir |-> blog_dir \o <<"/">> \o video_name]

NewRun(base, paras) ==
    [pc |-> "start", output_base_dir |-> base, doc |-> paras, markers |-> <<>>,
     blog_text |-> <<>>, blog_dir |-> <<>>, media_dir |-> <<>>, shotIdx |-> 1, clipIdx |-> 1,
     extracted_files |-> NoTracked, all_media_files |-> <<>>, html_content |-> <<>>,
     html_path |-> PyNone, success |-> FALSE,
     written |-> {}, removed |-> {}]

InitTwoRuns ==
    /\ docExists = TRUE
    /\ videoExists = TRUE
    /\ video = [fps |-> 1, frames |-> 600]
    /\ doc = <<>>
    /\ NothingParsed
    /\ call = "idle"
    /\ pc = "idle"
    /\ result = NewResult
    /\ exc = NoExc
    /\ raised = NoExc
    /\ stages = <<>>
    /\ dirs = {}
    /\ files = {}
    /\ extracted_files = NoTracked
    /\ extractOk = FALSE
    /\ shotTs = <<>>
    /\ shotIdx = 1
    /\ timeStrBound = FALSE
    /\ clipIdx = 1
    /\ all_media_files = <<>>
    /\ html_content = <<>>
    /\ htmls = <<>>
    /\ NoHelperCall
    /\ \E b1, b2 \in OutputBaseDirs, d1, d2 \in RunDocs :
          /\ b1 # b2
          /\ runs = <<NewRun(b1, d1), NewRun(b2, d2)>>
    /\ scan = NoScan
    /\ reel = NoReel

RunStep(r, next) ==
    /\ runs' = [runs EXCEPT ![r] = next]
    /\ UNCHANGED <<inputVars, scan, reel, helperVars, call, pc, parseVars, result, exc, raised, stages,
                   extracted_files, extractOk, shotVars, clipIdx, renderVars>>

\* process_blog lines 110-140: the document is parsed and the directories of
\* the run are made
RunStart(r) ==
    /\ runs[r].pc = "start"
    /\ \E timestamp \in Stamps :
          LET parsed == extract_markers(runs[r].doc)
              made == _create_output_dirs(runs[r].output_base_dir, <<"video">>, timestamp)
          IN  /\ dirs' = dirs \cup {made.blog_dir, made.media_dir}
              /\ RunStep(r, [runs[r] EXCEPT !.pc = "shots",
                                            !.markers = parsed.markers,
                                            !.blog_text = parsed.text,
                                            !.blog_dir = made.blog_dir,
                                            !.media_dir = made.media_dir])
    /\ UNCHANGED files

\* extract_screenshots_at_times, one timestamp: the frame is saved, or not
\* read, or the call raises
RunScreenshot(r) ==
    /\ runs[r].pc = "shots"
    /\ runs[r].shotIdx <= Len(OfType(runs[r].markers, "SCREENSHOT"))
    /\ LET marker == OfType(runs[r].markers, "SCREENSHOT")[runs[r].shotIdx]
           output_path == File(video_output_dir(runs[r].media_dir),
                               ScreenshotName(runs[r].shotIdx, marker.timestamp.i))
       IN  \E outcome \in {"saved", "unread", "raise"} :
              /\ files' = IF outcome = "saved" THEN files \cup {output_path} ELSE files
              /\ dirs' = dirs \cup {video_output_dir(runs[r].media_dir)}
              /\ RunStep(r, IF outcome = "raise"
                            THEN [runs[r] EXCEPT !.pc = "cleanup"]
                            ELSE [runs[r] EXCEPT
                                     !.shotIdx = @ + 1,
                                     !.written = IF outcome = "saved"
                                                 THEN @ \cup {output_path} ELSE @])

\* media_extractor.py lines 151-169: the screenshots are tracked
RunTrackScreenshots(r) ==
    /\ runs[r].pc = "shots"
    /\ runs[r].shotIdx > Len(OfType(runs[r].markers, "SCREENSHOT"))
    /\ RunStep(r, [runs[r] EXCEPT
                      !.pc = "clips",
                      !.extracted_files.screenshots =
                          TrackedScreenshots(OfType(runs[r].markers, "SCREENSHOT"), 1,
                                             runs[r].media_dir)])
    /\ UNCHANGED fsVars

\* _extract_clips, one clip: extract_video_clip checks its arguments, then
\* ffmpeg writes the clip, which is tracked, or fails
RunClip(r) ==
    /\ runs[r].pc = "clips"
    /\ runs[r].clipIdx <= Len(OfType(runs[r].markers, "CLIP"))
    /\ LET marker == OfType(runs[r].markers, "CLIP")[runs[r].clipIdx]
           output_path == File(runs[r].media_dir,
                               ClipName(marker.timestamp.i, marker.duration.i))
           valid == /\ validate_timestamps(<<marker.timestamp.i>>, TRUE).exc = NoExc
                    /\ marker.duration.i > 0
       IN  \E ffmpegOk \in (IF valid THEN BOOLEAN ELSE {FALSE}) :
              /\ files' = IF ffmpegOk THEN files \cup {output_path} ELSE files
              /\ RunStep(r, IF ffmpegOk
                            THEN [runs[r] EXCEPT
                                     !.clipIdx = @ + 1,
                                     !.extracted_files.clips = Append(@, output_path),
                                     !.written = @ \cup {output_path}]
                            ELSE [runs[r] EXCEPT !.pc = "cleanup"])
    /\ UNCHANGED dirs

\* _extract_media lines 85-92 and media_extractor.py lines 227-236: the
\* tracked files of a failed batch are removed and the run fails
RunCleanup(r) ==
    /\ runs[r].pc = "cleanup"
    /\ files' = cleanup_failed_extractions(files, runs[r].extracted_files)
    /\ RunStep(r, [runs[r] EXCEPT !.pc = "done",
                                  !.extracted_files = NoTracked,
                                  !.removed = files \ files'])
    /\ UNCHANGED dirs

\* html_generator.py lines 32-45 and process_blog lines 143-174: the scan of
\* the run's folder, generate_html, and the file written
RunRender(r) ==
    /\ runs[r].pc = "clips"
    /\ runs[r].clipIdx > Len(OfType(runs[r].markers, "CLIP"))
    /\ \E order \in ScanOrders(files, runs[r].blog_dir) :
          LET html == generate_html(runs[r].blog_text, runs[r].markers, order)
              path == File(runs[r].blog_dir, <<"blog_post.html">>)
          IN  IF html.exc # NoExc
              THEN /\ RunStep(r, [runs[r] EXCEPT !.pc = "done", !.all_media_files = order])
                   /\ UNCHANGED files
              ELSE /\ files' = files \cup {path}
                   /\ RunStep(r, [runs[r] EXCEPT !.pc = "done",
                                                 !.all_media_files = order,
                                                 !.html_content = html.val,
                                                 !.html_path = PyStr(PathStr(path)),
                                                 !.success = TRUE,
                                                 !.written = @ \cup {path}])
    /\ UNCHANGED dirs

NextTwoRuns ==
    \/ \E r \in Runs : RunStart(r)
    \/ \E r \in Runs : RunScreenshot(r)
    \/ \E r \in Runs : RunTrackScreenshots(r)
    \/ \E r \in Runs : RunClip(r)
    \/ \E r \in Runs : RunCleanup(r)
    \/ \E r \in Runs : RunRender(r)
SpecTwoRuns == InitTwoRuns /\ [][NextTwoRuns]_vars

Other(r) == 3 - r
RangeOf(seq) == {seq[k] : k \in 1..Len(seq)}
\* what the run renders when no other run is there: its own media files in
\* some order of the scan
HtmlAlone(r) ==
    {generate_html(runs[r].blog_text, runs[r].markers, order) :
        order \in ScanOrders(runs[r].written, runs[r].blog_dir)}
HtmlPathAlone(r) == PyStr(PathStr(File(runs[r].blog_dir, <<"blog_post.html">>)))
SameRunFolderName ==
    SubSeq(runs[1].blog_dir, Len(runs[1].output_base_dir) + 1, Len(runs[1].blog_dir))
    = SubSeq(runs[2].blog_dir, Len(runs[2].output_base_dir) + 1, Len(runs[2].blog_dir))
MaxScanLines == 3
Minute == <<"m", "i", "n", "u", "t", "e">>
\* SEGMENT: A | TIME: 1:30
S_Piped == <<"SEGMENT", ":", " ", "A", " ", "|", " ", "TIME", ":", " ", "1", ":", "3", "0">>
\* SEGMENT:A|DURATION:5
S_PipedNoTime == <<"SEGMENT", ":", "A", "|", "DURATION", ":", "5">>
\* title: B
S_Title == <<"title", ":", " ", "B">>
S_Time == <<"TIME", ":", " ", "1", ":", "3", "0">>
S_TimeBad == <<"TIME", ":", " ", "x">>
S_Duration == <<"DURATION", ":", " ", "3", " ">> \o Minute \o <<"s">>
\* #### C (2 minutes)
S_Header == <<"####", " ", "C", " ", "(", "2", " ">> \o Minute \o <<"s", ")">>
S_Starting == <<"STARTING TIMESTAMP", ":", " ", "9", "0">>
S_StartingBad == <<"STARTING TIMESTAMP", ":", " ", "x">>
S_Text == <<"d">>
ScanLineKinds ==
    {<<>>, S_Piped, S_PipedNoTime, S_Title, S_Time, S_TimeBad, S_Duration, S_Header,
     S_Starting, S_StartingBad, S_Text}

LineAt(lines, i) == lines[i + 1]
\* str.upper(), on the pieces the lines are written with
Upper(s) ==
    [k \in 1..Len(s) |-> IF s[k] = "segment" THEN "SEGMENT"
                         ELSE IF s[k] = "title" THEN "TITLE" ELSE s[k]]
StartsWith(s, prefix) == Len(s) >= Len(prefix) /\ SubSeq(s, 1, Len(prefix)) = prefix
\* s.upper().strip().startswith(word + ':')
KeyedAny(s, words) ==
    \E u \in {Strip(Upper(s))} : \E word \in words : StartsWith(u, <<word, ":">>)
Keyed(s, word) == KeyedAny(s, {word})
HasColon(s) == \E k \in 1..Len(s) : s[k] = ":"
\* s.split(':', 1)[1].strip()
AfterColon(s) ==
    LET k == CHOOSE k \in 1..Len(s) : s[k] = ":" /\ \A j \in 1..(k - 1) : s[j] # ":"
    IN  Strip(SubSeq(s, k + 1, Len(s)))
\* next((p for p in parts if ...), default)
RECURSIVE FirstKeyed(_, _, _)
FirstKeyed(parts, words, default) ==
    IF parts = <<>> THEN default
    ELSE IF KeyedAny(Head(parts), words) THEN Head(parts)
    ELSE FirstKeyed(Tail(parts), words, default)
DefaultDurationPart == <<"DURATION", ":", " ", "2", " ">> \o Minute \o <<"s">>

VideoSegment(start_time, duration, title, description) ==
    [start_time |-> start_time, duration |-> duration, title |-> title,
     description |-> description]

\* lines 258-265: re.search(r'(\d+)\s*minutes?'), else int(), else 120
SimpleDuration(duration_value) ==
    IF UnitMatches(duration_value, Minute) # {} THEN UnitValue(duration_value, Minute) * 60
    ELSE IF PyIntOfStr(duration_value).exc = NoExc THEN PyIntOfStr(duration_value).val
    ELSE 120
\* lines 268-274: the lines of the description end at j
RECURSIVE DescriptionEnd(_, _)
DescriptionEnd(lines, j) ==
    IF /\ j < Len(lines)
       /\ Strip(LineAt(lines, j)) # <<>>
       /\ ~KeyedAny(LineAt(lines, j), {"SEGMENT", "TITLE", "TIME", "TIMESTAMP", "DURATION"})
    THEN DescriptionEnd(lines, j + 1)
    ELSE j
DescriptionLines(lines, from, to) ==
    [k \in 1..(to - from) |-> Strip(LineAt(lines, from + k - 1))]

\* the index after an exception caught by a handler of the loop: i += 1
ExceptStay(i) == i
ExceptAdvance(i) == i + 1

\* lines 237-265: the title, the timestamp and the duration of the parts
SegmentValues(title_part, time_part, duration_part) ==
    CHOOSE v \in
        {[title |-> title, timestamp |-> parse_timestamp(time_value),
          duration |-> SimpleDuration(duration_value)] :
            title \in {IF HasColon(title_part) THEN AfterColon(title_part)
                       ELSE Strip(title_part)},
            time_value \in {IF HasColon(time_part) THEN AfterColon(time_part) ELSE <<>>},
            duration_value \in {IF HasColon(duration_part) THEN AfterColon(duration_part)
                                ELSE <<"2", " ">> \o Minute \o <<"s">>}} : TRUE
\* lines 237-285, once the three parts are known and i is past the lines read;
\* the values v and the end j of the description are bound before they are used
SimpleSegment(lines, i, segments, title_part, time_part, duration_part) ==
    CHOOSE r \in
        {IF v.timestamp.exc # NoExc
         THEN [i |-> ExceptAdvance(i), segments |-> segments, raised |-> TRUE]
         ELSE [i |-> IF j > i + 1 THEN j ELSE i + 1,
               segments |-> Append(segments,
                                   VideoSegment(v.timestamp.val, v.duration, v.title,
                                                DescriptionLines(lines, i + 1, j))),
               raised |-> FALSE] :
            v \in {SegmentValues(title_part, time_part, duration_part)},
            j \in {DescriptionEnd(lines, i + 1)}} : TRUE

\* lines 203-235: the parts on one line between pipes, or on the next lines
PartsOf(lines, i, parts) ==
    LET timeNext == i + 1 < Len(lines) /\ KeyedAny(LineAt(lines, i + 1), {"TIME", "TIMESTAMP"})
        durationNext == i + 2 < Len(lines) /\ Keyed(LineAt(lines, i + 2), "DURATION")
    IN  IF Len(parts) = 1
        THEN IF ~timeNext THEN [found |-> FALSE, i |-> i + 1]
             ELSE IF durationNext
             THEN [found |-> TRUE, i |-> i + 2, title_part |-> Strip(parts[1]),
                   time_part |-> Strip(LineAt(lines, i + 1)),
                   duration_part |-> Strip(LineAt(lines, i + 2))]
             ELSE [found |-> TRUE, i |-> i + 1, title_part |-> Strip(parts[1]),
                   time_part |-> Strip(LineAt(lines, i + 1)),
                   duration_part |-> DefaultDurationPart]
        ELSE [found |-> TRUE, i |-> i, title_part |-> Strip(parts[1]),
              time_part |-> FirstKeyed(parts, {"TIME", "TIMESTAMP"}, <<>>),
              duration_part |-> FirstKeyed(parts, {"DURATION"}, DefaultDurationPart)]
BlockParts(lines, i) ==
    CHOOSE p \in {PartsOf(lines, i, parts) :
                     parts \in {Split(Strip(LineAt(lines, i)), "|")}} : TRUE
\* lines 201-285: the block of a SEGMENT: or TITLE: line
SimpleBlock(lines, i, segments) ==
    CHOOSE r \in {IF ~p.found THEN [i |-> p.i, segments |-> segments, raised |-> FALSE]
                  ELSE SimpleSegment(lines, p.i, segments, p.title_part, p.time_part,
                                     p.duration_part) : p \in {BlockParts(lines, i)}} : TRUE

\* re.search(r'\((\d+)\s*minutes?\)', title): the places of the digits
ParenMinutes(title) ==
    {k \in 2..Len(title) :
        /\ title[k - 1] = "("
        /\ k \in UnitMatches(title, Minute)
        /\ LET u == k + DigitsFrom(title, k) + SpacesFrom(title, k + DigitsFrom(title, k))
                    + Len(Minute)
           IN  \/ u <= Len(title) /\ title[u] = ")"
               \/ u + 1 <= Len(title) /\ title[u] = "s" /\ title[u + 1] = ")"}
HeaderDuration(title) ==
    IF ParenMinutes(title) = {} THEN 120
    ELSE LET k == CHOOSE k \in ParenMinutes(title) : \A j \in ParenMinutes(title) : k <= j
         IN  DigitsVal(SubSeq(title, k, k + DigitsFrom(title, k) - 1), 0) * 60

\* lines 307-315, for one line l: a STARTING TIMESTAMP line sets the timestamp
\* unless parse_timestamp raises ValueError, which is caught there; acc is
\* (j, timestamp, description, raised)
HeaderLineStep(acc, l, ts) ==
    IF StartsWith(l, <<"STARTING TIMESTAMP", ":">>)
    THEN IF ts.exc = NoExc
         THEN [acc EXCEPT !.j = @ + 1, !.timestamp = PyInt(ts.val)]
         ELSE [acc EXCEPT !.j = @ + 1, !.raised = TRUE]
    ELSE [acc EXCEPT !.j = @ + 1, !.description = Append(@, l)]
\* lines 305-316: the lines up to the next blank one
RECURSIVE HeaderLinesFrom(_, _)
HeaderLinesFrom(lines, acc) ==
    IF acc.j < Len(lines) /\ Strip(LineAt(lines, acc.j)) # <<>>
    THEN CHOOSE r \in
            {HeaderLinesFrom(lines, next) :
                next \in {HeaderLineStep(acc, Strip(LineAt(lines, acc.j)), ts) :
                            ts \in {parse_timestamp(ts_value) :
                                       ts_value \in {Strip(ReplaceAll(
                                                          LineAt(lines, acc.j),
                                                          <<"STARTING TIMESTAMP", ":">>,
                                                          <<>>))}}}} : TRUE
    ELSE acc

\* lines 288-334
MarkdownBlock(lines, i, segments) ==
    CHOOSE r \in
        {[i |-> IF read.j > i + 1 THEN read.j ELSE i + 1,
          segments |-> IF read.timestamp # PyNone
                       THEN Append(segments,
                                   VideoSegment(read.timestamp.i,
                                                HeaderDuration(current_title),
                                                current_title, read.description))
                       ELSE segments,
          raised |-> read.raised] :
            current_title \in {Strip(ReplaceAll(Strip(LineAt(lines, i)), <<"####">>, <<>>))},
            read \in {HeaderLinesFrom(lines, [j |-> i + 1, timestamp |-> PyNone,
                                              description |-> <<>>, raised |-> FALSE])}} :
        TRUE

\* lines 193-342: the body of the while loop, for the line at i
ScanLine(lines, i, segments) ==
    CHOOSE r \in
        {IF line = <<>> THEN [i |-> i + 1, segments |-> segments, raised |-> FALSE]
         ELSE IF KeyedAny(line, {"SEGMENT", "TITLE"}) THEN SimpleBlock(lines, i, segments)
         ELSE IF StartsWith(line, <<"####">>) THEN MarkdownBlock(lines, i, segments)
         ELSE [i |-> i + 1, segments |-> segments, raised |-> FALSE] :
            line \in {Strip(LineAt(lines, i))}} : TRUE

\* '\n'.join(lines)
RECURSIVE JoinNewlines(_)
JoinNewlines(lines) ==
    IF lines = <<>> THEN <<>>
    ELSE IF Len(lines) = 1 THEN lines[1]
    ELSE lines[1] \o <<"\n">> \o JoinNewlines(Tail(lines))
\* the texts of up to n lines, each of one of the kinds
TextsOf(kinds, n) == {JoinNewlines(lines) : lines \in SeqsUpTo(kinds, n)}
\* str.splitlines(): the pieces between the newlines; no line for an empty
\* text, none after a final newline
Newlines(text) == {k \in 1..Len(text) : text[k] = "\n"}
LineEnd(text, n) ==
    IF n > Cardinality(Newlines(text)) THEN Len(text) + 1
    ELSE CHOOSE p \in Newlines(text) : Cardinality({q \in Newlines(text) : q < p}) = n - 1
splitlines(text) ==
    LET count == IF text = <<>> THEN 0
                 ELSE IF text[Len(text)] = "\n" THEN Cardinality(Newlines(text))
                 ELSE Cardinality(Newlines(text)) + 1
    IN  [n \in 1..count |->
            SubSeq(text, IF n = 1 THEN 1 ELSE LineEnd(text, n - 1) + 1, LineEnd(text, n) - 1)]

InitScan ==
    /\ docExists = FALSE
    /\ videoExists = FALSE
    /\ video = NoVideo
    /\ doc = <<>>
    /\ markers = <<>>
    /\ spans = <<>>
    /\ blog_text \in TextsOf(ScanLineKinds, MaxScanLines)
    /\ NothingRun

ScanStep(next) ==
    /\ scan' = next
    /\ UNCHANGED <<inputVars, runs, reel, helperVars, call, pc, parseVars, result, exc, raised,
                   stages, fsVars, extracted_files, extractOk, shotVars, clipIdx, renderVars>>

\* lines 189-191
DirectExtractSegments ==
    /\ scan.pc = "idle"
    /\ ScanStep([pc |-> "loop", lines |-> splitlines(blog_text), i |-> 0, segments |-> <<>>,
                 raised |-> FALSE])

\* one iteration of "while i < len(lines)"
ScanIteration ==
    /\ scan.pc = "loop"
    /\ scan.i < Len(scan.lines)
    /\ \E r \in {ScanLine(scan.lines, scan.i, scan.segments)} :
          ScanStep([scan EXCEPT !.i = r.i, !.segments = r.segments,
                                !.raised = @ \/ r.raised])

\* lines 344-346
ScanReturn ==
    /\ scan.pc = "loop"
    /\ scan.i >= Len(scan.lines)
    /\ ScanStep([scan EXCEPT !.pc = "returned"])

NextScan == DirectExtractSegments \/ ScanIteration \/ ScanReturn
SpecScan == InitScan /\ [][NextScan]_vars

\* the texts of the runs that are followed to their end: the lines that raise
\* inside the loop body, and lines that give a segment
MaxFairLines == 2
FairLineKinds == {S_Piped, S_PipedNoTime, S_Title, S_TimeBad, S_Header, S_StartingBad}
InitScanFair ==
    /\ docExists = FALSE
    /\ videoExists = FALSE
    /\ video = NoVideo
    /\ doc = <<>>
    /\ markers = <<>>
    /\ spans = <<>>
    /\ blog_text \in TextsOf(FairLineKinds, MaxFairLines)
    /\ NothingRun
\* the scan is one thread that runs the loop to its end
SpecScanFair == InitScanFair /\ [][NextScan]_vars /\ WF_vars(NextScan)

\* the index grows at every iteration of the loop
C29_IndexGrows == [][ScanIteration => scan'.i > scan.i]_vars
\* C29: extract_segments_from_text returns on every input: at every
\* iteration of the scan of the lines the index grows, also when a block
\* raises inside the loop body.
C29_ScanReturns == (scan.pc = "loop") ~> (scan.pc = "returned")
\* a scan returned after a block raised inside the loop and another block
\* gave a segment
C29_ReturnedAfterRaise ==
    /\ scan.pc = "returned"
    /\ scan.raised
    /\ scan.segments # <<>>

(***************************************************************************)
(* HighlightReelProcessor.process_reel                                     *)
(* The instructions are a text of lines; the tags [Title], [Segment],      *)
(* [Description] and [CLIP are single pieces that stand for their          *)
(* characters, so that line[7:], line[9:] and line[13:] are the pieces     *)
(* after the tag.  Card and clip files are written by moviepy, which is    *)
(* taken to succeed.                                                       *)
(***************************************************************************)
MaxInstructionLines == 6
TempDir == <<"tmp">>

\* [Title] T
I_Title == <<"[Title]", " ", "T">>
\* [Segment] S
I_Segment == <<"[Segment]", " ", "S">>
\* [Description] d
I_Description == <<"[Description]", " ", "d">>
\* [Description]
I_NoDescription == <<"[Description]">>
\* [CLIP timestamp="0:00:10" duration="5"]
I_Clip ==
    <<"[CLIP", " ", "timestamp", "=", "\"", "0", ":", "0", "0", ":", "1", "0", "\"", " ",
      "duration", "=", "\"", "5", "\"", "]">>
\* [CLIP timestamp="0:00:10"]
I_ClipNoDuration ==
    <<"[CLIP", " ", "timestamp", "=", "\"", "0", ":", "0", "0", ":", "1", "0", "\"", "]">>
InstructionLineKinds ==
    {I_Title, I_Segment, I_Description, I_NoDescription, I_Clip, I_ClipNoDuration}

\* the pieces of s from place k up to the next '"' (all of the rest if none)
UpToQuote(s, k) ==
    CHOOSE n \in 0..(Len(s) - k + 1) :
        /\ \A j \in k..(k + n - 1) : s[j] # "\""
        /\ k + n > Len(s) \/ s[k + n] = "\""

\* re.search(r'timestamp="([^"]+)" duration="(\d+)"', line) matching at place k
ClipMatchAt(line, k) ==
    LET from == k + 3
        n == UpToQuote(line, from)
        mid == from + n
        d == DigitsFrom(line, mid + 5)
    IN  /\ k + 2 <= Len(line)
        /\ SubSeq(line, k, k + 2) = <<"timestamp", "=", "\"">>
        /\ n >= 1
        /\ mid + 4 <= Len(line)
        /\ SubSeq(line, mid, mid + 4) = <<"\"", " ", "duration", "=", "\"">>
        /\ d >= 1
        /\ mid + 5 + d <= Len(line)
        /\ line[mid + 5 + d] = "\""
ClipMatches(line) == \E k \in 1..Len(line) : ClipMatchAt(line, k)
\* group(1) and int(group(2)) of the leftmost match
ClipGroups(line) ==
    LET k == CHOOSE k \in 1..Len(line) :
                 ClipMatchAt(line, k) /\ \A h \in 1..(k - 1) : ~ClipMatchAt(line, h)
        n == UpToQuote(line, k + 3)
        d == DigitsFrom(line, k + n + 8)
    IN  [timestamp |-> SubSeq(line, k + 3, k + n + 2),
         duration |-> DigitsVal(SubSeq(line, k + n + 8, k + n + 7 + d), 0)]

NoSegment == [set |-> FALSE, title |-> <<>>, clips |-> <<>>]
NoClip == [set |-> FALSE, description |-> <<>>]
HasClips(current_segment) == current_segment.set /\ current_segment.clips # <<>>
ParseStart ==
    [segments |-> <<>>, current_segment |-> NoSegment, main_title |-> PyNone,
     current_clip |-> NoClip]

\* lines 163-203: one line of the instructions
InstructionLine(st, raw) ==
    LET line == Strip(raw)
    IN  IF line = <<>> THEN st
        ELSE IF StartsWith(line, <<"[Title]">>)
        THEN [st EXCEPT !.main_title = PyStr(Strip(Tail(line)))]
        ELSE IF StartsWith(line, <<"[Segment]">>)
        THEN [st EXCEPT
                !.segments = IF HasClips(st.current_segment)
                             THEN Append(@, [title |-> st.current_segment.title,
                                             clips |-> st.current_segment.clips])
                             ELSE @,
                !.current_segment = [set |-> TRUE, title |-> Strip(Tail(line)),
                                     clips |-> <<>>]]
        ELSE IF StartsWith(line, <<"[Description]">>)
        THEN IF st.current_segment.set
             THEN [st EXCEPT !.current_clip = [set |-> TRUE,
                                               description |-> Strip(Tail(line))]]
             ELSE st
        ELSE IF StartsWith(line, <<"[CLIP">>) /\ st.current_segment.set /\ st.current_clip.set
        THEN IF ClipMatches(line)
             THEN [st EXCEPT
                     !.current_segment.clips =
                         Append(@, [description |-> st.current_clip.description,
                                    timestamp |-> ClipGroups(line).timestamp,
                                    duration |-> ClipGroups(line).duration]),
                     !.current_clip = NoClip]
             ELSE st
        ELSE st

RECURSIVE InstructionLines(_, _)
InstructionLines(st, lines) ==
    IF lines = <<>> THEN st
    ELSE InstructionLines(InstructionLine(st, Head(lines)), Tail(lines))

\* lines 151-223
_parse_instructions(instructions) ==
    LET st == InstructionLines(ParseStart, Split(Strip(instructions), "\n"))
        segments == IF HasClips(st.current_segment)
                    THEN Append(st.segments, [title |-> st.current_segment.title,
                                              clips |-> st.current_segment.clips])
                    ELSE st.segments
    IN  IF segments = <<>> THEN Raise("ValueError")
        ELSE Ok([main_title |-> st.main_title, segments |-> segments])

\* "if self.main_title"
Truthy(main_title) == main_title.ty = "str" /\ main_title.s # <<>>

MainTitlePath == File(TempDir, <<"0", "0", "_main_title.mp4">>)
SegmentTitlePath(i) == File(TempDir, Pad2(i + 1) \o <<"_segment_title.mp4">>)
DescriptionPath(i, j) ==
    File(TempDir, Pad2(i + 1) \o <<"_">> \o Pad2(j + 1) \o <<"_description.mp4">>)
ClipPath(i, j) == File(TempDir, Pad2(i + 1) \o <<"_">> \o Pad2(j + 1) \o <<"_clip.mp4">>)

\* "if clip_info['description']" of line 68
Described(clip_info) == clip_info.description # <<>>

\* lines 67-76: the description cards of segment i, from clip j on (0-based)
RECURSIVE DescriptionCards(_, _, _)
DescriptionCards(clips, i, j) ==
    IF j >= Len(clips) THEN <<>>
    ELSE (IF Described(clips[j + 1]) THEN <<DescriptionPath(i, j)>> ELSE <<>>)
         \o DescriptionCards(clips, i, j + 1)
\* lines 55-76: the cards of the segments from segment i on (0-based)
RECURSIVE SegmentCards(_, _)
SegmentCards(segments, i) ==
    IF i >= Len(segments) THEN <<>>
    ELSE <<SegmentTitlePath(i)>> \o DescriptionCards(segments[i + 1].clips, i, 0)
         \o SegmentCards(segments, i + 1)
\* lines 41-76
CreateTitleCards(main_title, segments) ==
    (IF Truthy(main_title) THEN <<MainTitlePath>> ELSE <<>>) \o SegmentCards(segments, 0)

\* _extract_clip, lines 279-280: h, m, s = map(int, timestamp.split(':'))
ClipStart(timestamp) ==
    LET parts == Split(timestamp, ":")
    IN  IF Len(parts) = 3 /\ \A k \in 1..3 : AllDigits(Strip(parts[k]))
        THEN Ok(DigitsVal(Strip(parts[1]), 0) * 3600 + DigitsVal(Strip(parts[2]), 0) * 60
                + DigitsVal(Strip(parts[3]), 0))
        ELSE Raise("ValueError")
\* lines 79-90: the clips from segment i, clip j on
RECURSIVE ExtractClips(_, _, _)
ExtractClips(segments, i, j) ==
    IF i >= Len(segments) THEN Ok(<<>>)
    ELSE IF j >= Len(segments[i + 1].clips) THEN ExtractClips(segments, i + 1, 0)
    ELSE IF ClipStart(segments[i + 1].clips[j + 1].timestamp).exc # NoExc
    THEN Raise("ValueError")
    ELSE LET rest == ExtractClips(segments, i, j + 1)
         IN  IF rest.exc # NoExc THEN rest ELSE Ok(<<ClipPath(i, j)>> \o rest.val)

\* lines 110-119: the description card and the clip of n clips
RECURSIVE AssembleClips(_, _, _, _)
AssembleClips(n, st, title_card_paths, video_clip_paths) ==
    IF n = 0 \/ st.exc # NoExc THEN st
    ELSE IF st.title_idx >= Len(title_card_paths) \/ st.video_idx >= Len(video_clip_paths)
    THEN [st EXCEPT !.exc = "IndexError"]
    ELSE AssembleClips(n - 1,
            [st EXCEPT !.all_paths = @ \o <<title_card_paths[st.title_idx + 1],
                                            video_clip_paths[st.video_idx + 1]>>,
                       !.title_idx = @ + 1, !.video_idx = @ + 1],
            title_card_paths, video_clip_paths)
\* lines 104-119
RECURSIVE AssembleSegments(_, _, _, _)
AssembleSegments(segments, st, title_card_paths, video_clip_paths) ==
    IF segments = <<>> \/ st.exc # NoExc THEN st
    ELSE IF st.title_idx >= Len(title_card_paths) THEN [st EXCEPT !.exc = "IndexError"]
    ELSE AssembleSegments(Tail(segments),
            AssembleClips(Len(Head(segments).clips),
                [st EXCEPT !.all_paths = Append(@, title_card_paths[st.title_idx + 1]),
                           !.title_idx = @ + 1],
                title_card_paths, video_clip_paths),
            title_card_paths, video_clip_paths)
\* lines 92-119
CombineInOrder(main_title, segments, title_card_paths, video_clip_paths) ==
    AssembleSegments(segments,
        [all_paths |-> IF Truthy(main_title) THEN <<title_card_paths[1]>> ELSE <<>>,
         title_idx |-> IF Truthy(main_title) THEN 1 ELSE 0,
         video_idx |-> 0, exc |-> NoExc],
        title_card_paths, video_clip_paths)

InitReel ==
    /\ docExists = FALSE
    /\ videoExists = FALSE
    /\ video = NoVideo
    /\ doc = <<>>
    /\ markers = <<>>
    /\ spans = <<>>
    /\ blog_text = <<>>
    /\ runs = <<>>
    /\ scan = NoScan
    /\ \E instructions \in TextsOf(InstructionLineKinds, MaxInstructionLines) :
          reel = [NoReel EXCEPT !.instructions = instructions]
    /\ NoPipelineRun

ReelStep(next) ==
    /\ reel' = next
    /\ UNCHANGED <<inputVars, runs, scan, helperVars, call, pc, parseVars, result, exc, raised,
                   stages, fsVars, extracted_files, extractOk, shotVars, clipIdx, renderVars>>

\* lines 36-38; an exception leaves through the handler of lines 146-149
ParseInstructions ==
    /\ reel.pc = "idle"
    /\ \E r \in {_parse_instructions(reel.instructions)} :
          IF r.exc # NoExc THEN ReelStep([reel EXCEPT !.pc = "raised", !.exc = r.exc])
          ELSE ReelStep([reel EXCEPT !.pc = "parsed", !.main_title = r.val.main_title,
                                     !.segments = r.val.segments])

\* Phase 1
CreateCards ==
    /\ reel.pc = "parsed"
    /\ ReelStep([reel EXCEPT !.pc = "cards",
                    !.title_card_paths = CreateTitleCards(reel.main_title, reel.segments)])

\* Phase 2
ExtractVideoClips ==
    /\ reel.pc = "cards"
    /\ \E r \in {ExtractClips(reel.segments, 0, 0)} :
          IF r.exc # NoExc THEN ReelStep([reel EXCEPT !.pc = "raised", !.exc = r.exc])
          ELSE ReelStep([reel EXCEPT !.pc = "clips", !.video_clip_paths = r.val])

\* Phase 3
CombineClips ==
    /\ reel.pc = "clips"
    /\ \E st \in {CombineInOrder(reel.main_title, reel.segments, reel.title_card_paths,
                                 reel.video_clip_paths)} :
          IF st.exc # NoExc
          THEN ReelStep([reel EXCEPT !.pc = "raised", !.exc = st.exc,
                                     !.all_paths = st.all_paths])
          ELSE ReelStep([reel EXCEPT !.pc = "returned", !.all_paths = st.all_paths])

NextReel == ParseInstructions \/ CreateCards \/ ExtractVideoClips \/ CombineClips
SpecReel == InitReel /\ [][NextReel]_vars

\* the order of the final reel: each segment's title card, then for each of
\* its clips the clip's description card and the clip
RECURSIVE ClipsInOrder(_, _, _)
ClipsInOrder(clips, i, j) ==
    IF j >= Len(clips) THEN <<>>
    ELSE <<DescriptionPath(i, j), ClipPath(i, j)>> \o ClipsInOrder(clips, i, j + 1)
RECURSIVE SegmentsInOrder(_, _)
SegmentsInOrder(segments, i) ==
    IF i >= Len(segments) THEN <<>>
    ELSE <<SegmentTitlePath(i)>> \o ClipsInOrder(segments[i + 1].clips, i, 0)
         \o SegmentsInOrder(segments, i + 1)
ReelInOrder ==
    (IF Truthy(reel.main_title) THEN <<MainTitlePath>> ELSE <<>>)
    \o SegmentsInOrder(reel.segments, 0)
Accepted == reel.pc \notin {"idle"} /\ reel.segments # <<>>
AssemblyOver == Accepted /\ reel.video_clip_paths # <<>> /\ reel.pc \in {"returned", "raised"}
SomeEmptyDescription ==
    \E i \in 1..Len(reel.segments) : \E j \in 1..Len(reel.segments[i].clips) :
        ~Described(reel.segments[i].clips[j])

\* C30: for accepted instructions the assembly phase ends with the reel in
\* order: the main title card if a title was given, then every segment's own
\* title card followed, clip by clip, by the clip's own description card and
\* the clip, a clip with an empty description included
C30_AssembledInOrder ==
    AssemblyOver => reel.pc = "returned" /\ reel.all_paths = ReelInOrder
\* C30, returned reels only: a reel that process_reel returns is in order
C30_ReturnedInOrder == reel.pc = "returned" => reel.all_paths = ReelInOrder
\* C30, empty description: the assembly phase ends with an IndexError
C30_EmptyDescriptionRaises ==
    AssemblyOver /\ SomeEmptyDescription => reel.pc = "raised" /\ reel.exc = "IndexError"
C30_TwoSegmentsReturned ==
    /\ reel.pc = "returned"
    /\ Len(reel.segments) = 2
C30_EmptyDescriptionAssembled == AssemblyOver /\ SomeEmptyDescription

====
